---- MODULE Spec2Model ----
(***************************************************************************)
(* Access-control core of trapdoor-mesh: the Token Store (TokenManager),   *)
(* the Rate Limiter, the Approval Queue (security.py) and the              *)
(* authorization pipeline require_auth_and_permission                      *)
(* (security_integration.py).                                              *)
(*                                                                         *)
(* Python strings that the code takes apart (paths, commands, the          *)
(* Authorization header, secrets) are sequences of one-character strings,  *)
(* so that startswith, split, join, Path.resolve and Path.expanduser are   *)
(* computed and not assumed.                                               *)
(***************************************************************************)
EXTENDS Integers, Sequences, FiniteSets, TLC

VARIABLES
    tokens,                      \* TokenManager.tokens: dict token_id -> TokenInfo, in insertion order
    token_lookup,                \* TokenManager.token_lookup: dict secret -> token_id
    global_denylist,             \* TokenManager.global_denylist
    require_approval_operations, \* TokenManager.require_approval_operations
    file,                        \* the persisted record at config_path
    lock,                        \* owner of TokenManager.lock (an RLock), or NoOwner
    per_minute, per_hour, per_day, \* RateLimiter histories: storage key -> deque of timestamps
    admitted,                    \* history, read by the properties only: storage key -> the
                                 \* timestamps of the check_and_record calls that returned, sorted
    pending,                     \* ApprovalQueue.pending: request_id -> PendingOperation
    now,                         \* the clock (time.time(), datetime.now())
    fresh,                       \* how many values secrets.token_hex has handed out
    phase,                       \* "down": no TokenManager constructed yet; "up": serving
    req,                         \* one authorize / validate call per caller thread
    adm                          \* one administrative call per admin thread

vars == <<tokens, token_lookup, global_denylist, require_approval_operations, file,
          lock, per_minute, per_hour, per_day, admitted, pending, now, fresh, phase, req, adm>>

storeVars == <<tokens, token_lookup, global_denylist, require_approval_operations, file>>
limiterVars == <<per_minute, per_hour, per_day, admitted>>

----------------------------------------------------------------------------
(* Bounds of the model *)

MaxFresh == 3       \* values secrets.token_hex may hand out in one run
MaxTicks == 2       \* steps the clock may take
TickSeconds == 30   \* seconds the clock advances in one step

----------------------------------------------------------------------------
(* Python values *)

\* Optional[...]: None, or a present value
None == [present |-> FALSE, v |-> <<>>]
Some(x) == [present |-> TRUE, v |-> x]
\* Python truthiness of an Optional[List]: None and [] are both falsy
Truthy(l) == l.present /\ l.v # <<>>

\* str.startswith
StartsWith(s, p) == Len(p) <= Len(s) /\ SubSeq(s, 1, Len(p)) = p

\* x in list
InList(x, l) == \E i \in 1..Len(l) : l[i] = x

RECURSIVE SplitOn(_, _, _, _)
\* str.split(sep): the pieces of s between occurrences of the character sep;
\* acc is the piece being read, out the pieces read so far
SplitOn(s, sep, acc, out) ==
    IF s = <<>> THEN Append(out, acc)
    ELSE IF Head(s) = sep THEN SplitOn(Tail(s), sep, <<>>, Append(out, acc))
    ELSE SplitOn(Tail(s), sep, Append(acc, Head(s)), out)

Split(s, sep) == SplitOn(s, sep, <<>>, <<>>)

RECURSIVE JoinWith(_, _)
\* sep.join(parts)
JoinWith(parts, sep) ==
    IF parts = <<>> THEN <<>>
    ELSE IF Len(parts) = 1 THEN parts[1]
    ELSE parts[1] \o sep \o JoinWith(Tail(parts), sep)

RECURSIVE DropEmpty(_)
DropEmpty(parts) ==
    IF parts = <<>> THEN <<>>
    ELSE IF Head(parts) = <<>> \/ Head(parts) = <<".">> THEN DropEmpty(Tail(parts))
    ELSE <<Head(parts)>> \o DropEmpty(Tail(parts))

----------------------------------------------------------------------------
(* pathlib on the host's filesystem *)

HOME == <<"/", "h">>            \* the user's home directory
CWD == <<"/", "w">>             \* the process's working directory
\* the symbolic links of the filesystem: <<link, target>>, targets canonical
SymlinkTable == { << <<"/", "l">>, <<"/", "t">> >> }

\* str of an absolute path made of the components parts
Render(parts) == IF parts = <<>> THEN <<"/">> ELSE <<"/">> \o JoinWith(parts, <<"/">>)

\* the components of an absolute path string, "" and "." dropped
Components(s) == DropEmpty(Split(s, "/"))

IsSymlink(parts) == \E e \in SymlinkTable : e[1] = Render(parts)
SymlinkTarget(parts) == (CHOOSE e \in SymlinkTable : e[1] = Render(parts))[2]

RECURSIVE Walk(_, _)
\* Path.resolve (os.path.realpath): walk the components from the root, follow a
\* symbolic link as soon as it is reached, and let ".." drop the last component
\* of the physical path
Walk(stack, parts) ==
    IF parts = <<>> THEN stack
    ELSE IF Head(parts) = <<".", ".">>
         THEN Walk(IF stack = <<>> THEN <<>> ELSE SubSeq(stack, 1, Len(stack) - 1), Tail(parts))
    ELSE IF IsSymlink(Append(stack, Head(parts)))
         THEN Walk(Components(SymlinkTarget(Append(stack, Head(parts)))), Tail(parts))
    ELSE Walk(Append(stack, Head(parts)), Tail(parts))

\* str(Path(s).resolve())
Resolve(s) ==
    LET abs == IF s # <<>> /\ s[1] = "/" THEN s ELSE CWD \o <<"/">> \o s
    IN Render(Walk(<<>>, Components(abs)))

\* Path(s).expanduser(): a leading "~" component becomes the home directory
ExpandUser(s) ==
    IF s # <<>> /\ s[1] = "~" /\ (Len(s) = 1 \/ s[2] = "/")
    THEN HOME \o SubSeq(s, 2, Len(s))
    ELSE s

\* Path(s).name: the last component of the path, "" for the root
PathName(s) ==
    LET parts == DropEmpty(Split(s, "/"))
    IN IF parts = <<>> THEN <<>> ELSE parts[Len(parts)]

----------------------------------------------------------------------------
(* TokenManager.check_permission *)

SUDO == <<"s", "u", "d", "o">>

\* the operation names check_permission knows, and one it does not
FS_LS == <<"f", "s", "_", "l", "s">>
FS_READ == <<"f", "s", "_", "r", "e", "a", "d">>
FS_WRITE == <<"f", "s", "_", "w", "r", "i", "t", "e">>
FS_MKDIR == <<"f", "s", "_", "m", "k", "d", "i", "r">>
FS_RM == <<"f", "s", "_", "r", "m">>
EXEC == <<"e", "x", "e", "c">>
LEGACY == <<"l", "e", "g", "a", "c", "y">>

\* the outcome of a permission check: Allowed, or Forbidden with the rule that
\* raised PermissionError (stage) and what its message names (reason)
Allowed(stage) == [ok |-> TRUE, stage |-> stage, reason |-> "none"]
Forbidden(stage, reason) == [ok |-> FALSE, stage |-> stage, reason |-> reason]

\* some entry of the list, user-expanded and resolved, is a prefix of path_str
AnyPrefix(list, path_str) ==
    \E i \in 1..Len(list) : StartsWith(path_str, Resolve(ExpandUser(list[i])))

\* _check_path_allowed with the allowlist consulted before the token's denylist
CheckPathAllowedAllowlistFirst(token_info, path) ==
    LET path_str == Resolve(path)
    IN IF AnyPrefix(global_denylist, path_str) THEN FALSE
       ELSE IF Truthy(token_info.path_allowlist)
               /\ AnyPrefix(token_info.path_allowlist.v, path_str)
            THEN TRUE
       ELSE IF Truthy(token_info.path_denylist) /\ AnyPrefix(token_info.path_denylist.v, path_str)
            THEN FALSE
       ELSE ~Truthy(token_info.path_allowlist)

\* _check_path_allowed without the final return False of the allowlist branch
CheckPathAllowedDefaultAllow(token_info, path) ==
    LET path_str == Resolve(path)
    IN IF AnyPrefix(global_denylist, path_str) THEN FALSE
       ELSE IF Truthy(token_info.path_denylist) /\ AnyPrefix(token_info.path_denylist.v, path_str)
            THEN FALSE
       ELSE TRUE

\* _check_path_allowed without the loop over the global denylist
CheckPathAllowedNoGlobal(token_info, path) ==
    LET path_str == Resolve(path)
    IN IF Truthy(token_info.path_denylist) /\ AnyPrefix(token_info.path_denylist.v, path_str)
       THEN FALSE
       ELSE IF Truthy(token_info.path_allowlist)
            THEN AnyPrefix(token_info.path_allowlist.v, path_str)
       ELSE TRUE

\* TokenManager._check_path_allowed
CheckPathAllowed(token_info, path) ==
    LET path_str == Resolve(path)
    IN IF AnyPrefix(global_denylist, path_str) THEN FALSE
       ELSE IF Truthy(token_info.path_denylist) /\ AnyPrefix(token_info.path_denylist.v, path_str)
            THEN FALSE
       ELSE IF Truthy(token_info.path_allowlist)
            THEN AnyPrefix(token_info.path_allowlist.v, path_str)
       ELSE TRUE

\* _check_command_allowed with the allowlist consulted before the denylist
CheckCommandAllowedAllowlistFirst(token_info, command) ==
    IF command = <<>> THEN FALSE
    ELSE LET cmd_name == PathName(command[1])
             full_cmd == JoinWith(command, <<" ">>)
         IN IF Truthy(token_info.command_allowlist)
            THEN InList(cmd_name, token_info.command_allowlist.v)
            ELSE IF Truthy(token_info.command_denylist)
                    /\ \E i \in 1..Len(token_info.command_denylist.v) :
                          \/ cmd_name = token_info.command_denylist.v[i]
                          \/ StartsWith(full_cmd, token_info.command_denylist.v[i])
            THEN FALSE
            ELSE TRUE

\* TokenManager._check_command_allowed
CheckCommandAllowed(token_info, command) ==
    IF command = <<>> THEN FALSE
    ELSE LET cmd_name == PathName(command[1])
             full_cmd == JoinWith(command, <<" ">>)
         IN IF Truthy(token_info.command_denylist)
               /\ \E i \in 1..Len(token_info.command_denylist.v) :
                     \/ cmd_name = token_info.command_denylist.v[i]
                     \/ StartsWith(full_cmd, token_info.command_denylist.v[i])
            THEN FALSE
            ELSE IF Truthy(token_info.command_allowlist)
                 THEN InList(cmd_name, token_info.command_allowlist.v)
            ELSE TRUE

\* the scope check with hierarchical scopes: write:destructive grants write
MissingScopeHierarchical(scopes, operation, command) ==
    IF operation \in {FS_LS, FS_READ}
    THEN (IF "read" \notin scopes THEN "read" ELSE "none")
    ELSE IF operation \in {FS_WRITE, FS_MKDIR}
    THEN (IF "write" \notin scopes /\ "write:destructive" \notin scopes THEN "write" ELSE "none")
    ELSE IF operation = FS_RM
    THEN (IF "write:destructive" \notin scopes THEN "write:destructive" ELSE "none")
    ELSE IF operation = EXEC
    THEN (IF "exec" \notin scopes THEN "exec"
          ELSE IF Truthy(command) /\ InList(SUDO, command.v) /\ "exec:sudo" \notin scopes
               THEN "exec:sudo"
          ELSE "none")
    ELSE "none"

\* the scope check asking for the read scope on an operation it does not know
MissingScopeUnknownNeedsRead(scopes, operation, command) ==
    IF operation \in {FS_LS, FS_READ}
    THEN (IF "read" \notin scopes THEN "read" ELSE "none")
    ELSE IF operation \in {FS_WRITE, FS_MKDIR}
    THEN (IF "write" \notin scopes THEN "write" ELSE "none")
    ELSE IF operation = FS_RM
    THEN (IF "write:destructive" \notin scopes THEN "write:destructive" ELSE "none")
    ELSE IF operation = EXEC
    THEN (IF "exec" \notin scopes THEN "exec"
          ELSE IF Truthy(command) /\ InList(SUDO, command.v) /\ "exec:sudo" \notin scopes
               THEN "exec:sudo"
          ELSE "none")
    ELSE (IF "read" \notin scopes THEN "read" ELSE "none")

\* the scope whose absence makes check_permission raise, or "none"
MissingScope(scopes, operation, command) ==
    IF operation \in {FS_LS, FS_READ}
    THEN (IF "read" \notin scopes THEN "read" ELSE "none")
    ELSE IF operation \in {FS_WRITE, FS_MKDIR}
    THEN (IF "write" \notin scopes THEN "write" ELSE "none")
    ELSE IF operation = FS_RM
    THEN (IF "write:destructive" \notin scopes THEN "write:destructive" ELSE "none")
    ELSE IF operation = EXEC
    THEN (IF "exec" \notin scopes THEN "exec"
          ELSE IF Truthy(command) /\ InList(SUDO, command.v) /\ "exec:sudo" \notin scopes
               THEN "exec:sudo"
          ELSE "none")
    ELSE "none"

\* the path and command rules, evaluated after the scope check passed
CheckRules(token_info, path, command) ==
    IF path.present /\ ~CheckPathAllowed(token_info, path.v)
    THEN Forbidden("path", "Path not allowed")
    ELSE IF Truthy(command) /\ ~CheckCommandAllowed(token_info, command.v)
    THEN Forbidden("command", "Command not allowed")
    ELSE Allowed("rules")

\* check_permission with the admin test after the scope check and the rules
CheckPermissionAdminLast(token_info, operation, path, command) ==
    IF MissingScope(token_info.scopes, operation, command) # "none"
    THEN Forbidden("scope", MissingScope(token_info.scopes, operation, command))
    ELSE IF ~CheckRules(token_info, path, command).ok /\ "admin" \notin token_info.scopes
    THEN CheckRules(token_info, path, command)
    ELSE Allowed("admin")

\* TokenManager.check_permission(token_info, operation, path, command)
CheckPermission(token_info, operation, path, command) ==
    IF "admin" \in token_info.scopes THEN Allowed("admin")
    ELSE IF MissingScope(token_info.scopes, operation, command) # "none"
    THEN Forbidden("scope", MissingScope(token_info.scopes, operation, command))
    ELSE CheckRules(token_info, path, command)

----------------------------------------------------------------------------
(* TokenInfo and its persisted form *)

Digits == <<"0", "1", "2", "3", "4", "5", "6", "7", "8", "9">>
\* the n-th value handed out by secrets.token_hex: distinct from every earlier
\* one and from every secret an operator typed
Hex(n) == <<"x", Digits[n + 1]>>

DefaultRequestsPerMinute == 120
DefaultRateLimits == [w \in {"requests_per_minute"} |-> DefaultRequestsPerMinute]
NoLimits == [w \in {} |-> 0]
NoOperationLimits == [o \in {} |-> NoLimits]
DaySeconds == 86400

NoTime == [present |-> FALSE, v |-> 0]
AtTime(t) == [present |-> TRUE, v |-> t]
Absent(v) == [present |-> FALSE, v |-> v]

\* TokenInfo(token_id, name, token, scopes, created): the dataclass defaults
NewTokenInfo(token_id, name, token, scopes) ==
    [token_id |-> token_id, name |-> name, token |-> token, scopes |-> scopes,
     enabled |-> TRUE, expires |-> NoTime, last_used |-> NoTime,
     path_allowlist |-> None, path_denylist |-> None,
     command_allowlist |-> None, command_denylist |-> None,
     rate_limits |-> DefaultRateLimits, operation_limits |-> NoOperationLimits,
     require_approval |-> {}]

\* TokenInfo.to_dict: every key is written
ToDict(t) ==
    [token_id |-> t.token_id, name |-> t.name, token |-> t.token,
     scopes |-> Some(t.scopes), enabled |-> Some(t.enabled),
     expires |-> t.expires, last_used |-> t.last_used,
     path_allowlist |-> t.path_allowlist, path_denylist |-> t.path_denylist,
     command_allowlist |-> t.command_allowlist, command_denylist |-> t.command_denylist,
     rate_limits |-> Some(t.rate_limits), operation_limits |-> Some(t.operation_limits),
     require_approval |-> Some(t.require_approval)]

\* TokenInfo.from_dict: data.get(key, default) for the keys a record may omit
FromDict(d) ==
    [token_id |-> d.token_id, name |-> d.name, token |-> d.token,
     scopes |-> IF d.scopes.present THEN d.scopes.v ELSE {},
     enabled |-> IF d.enabled.present THEN d.enabled.v ELSE TRUE,
     expires |-> d.expires, last_used |-> d.last_used,
     path_allowlist |-> d.path_allowlist, path_denylist |-> d.path_denylist,
     command_allowlist |-> d.command_allowlist, command_denylist |-> d.command_denylist,
     rate_limits |-> IF d.rate_limits.present THEN d.rate_limits.v ELSE DefaultRateLimits,
     operation_limits |-> IF d.operation_limits.present THEN d.operation_limits.v
                          ELSE NoOperationLimits,
     require_approval |-> IF d.require_approval.present THEN d.require_approval.v ELSE {}]

----------------------------------------------------------------------------
(* Python dicts *)

\* tokens: a dict kept as the sequence of its values in insertion order
HasToken(ts, id) == \E i \in 1..Len(ts) : ts[i].token_id = id
IndexOfToken(ts, id) == CHOOSE i \in 1..Len(ts) : ts[i].token_id = id
TokenOf(ts, id) == ts[IndexOfToken(ts, id)]
\* ts[info.token_id] = info
PutToken(ts, info) ==
    IF HasToken(ts, info.token_id)
    THEN [ts EXCEPT ![IndexOfToken(ts, info.token_id)] = info]
    ELSE Append(ts, info)

\* d[k] = v and del d[k] on a dict kept as a function
DictSet(d, k, v) == [x \in DOMAIN d \cup {k} |-> IF x = k THEN v ELSE d[x]]
DictDel(d, k) == [x \in DOMAIN d \ {k} |-> d[x]]
EmptyDict == [x \in {} |-> 0]

----------------------------------------------------------------------------
(* Threads *)

Reqs == {1, 2}      \* caller threads
Admins == {1, 2}    \* administrator threads

NoOwner == <<"none", 0>>
ReqThread(r) == <<"req", r>>
AdmThread(a) == <<"adm", a>>

NoStr == <<>>

\* a caller thread before its call
IdleReq ==
    [pc |-> "idle", kind |-> "none",
     authorization |-> None, operation |-> NoStr, path |-> None, command |-> None,
     skip_rate_limit |-> FALSE,
     token |-> NoStr, token_id |-> NoStr, request_id |-> NoStr, start |-> 0, t |-> 0,
     status |-> 0, detail |-> "none", limit |-> 0,
     \* history of the call, read by the properties only
     began |-> {}, passed |-> {}, failed_at |-> 0,
     recorded |-> 0, created |-> FALSE, after |-> {}, after_disable |-> {},
     \* what _require_auth handed the endpoint: "none", "admitted" or "refused"
     wrapper |-> "none",
     \* the administrative endpoint called and the id in its URL
     endpoint |-> "none", target |-> NoStr]

\* an administrator thread before its call
IdleAdm ==
    [pc |-> "idle", op |-> "none", token_id |-> NoStr, old_token |-> NoStr,
     new_token |-> NoStr, status |-> "none",
     \* what list_pending returned, and, for the properties only, the ids it
     \* returned whose status was no longer pending
     listed |-> {}, listed_decided |-> {}]

\* the disable_token calls that had returned when a call began
DisablesDone == {a \in Admins : adm[a].op = "disable" /\ adm[a].pc = "done"}

\* the rotations that had returned a new secret when a call began
RotationsDone == {a \in Admins : adm[a].op = "rotate" /\ adm[a].pc = "done"}

\* raise HTTPException(status, detail) out of step `step` of the call
Raise(r, status, detail, step) ==
    [req[r] EXCEPT !.pc = "failed", !.status = status, !.detail = detail,
                   !.failed_at = step]

----------------------------------------------------------------------------
(* TokenManager: load and save *)

NoFile == [exists |-> FALSE, tokens |-> <<>>, global_denylist |-> <<>>,
           require_approval_operations |-> {}]

\* what save_tokens writes
Saved(ts, gd, rao) ==
    [exists |-> TRUE, tokens |-> [i \in 1..Len(ts) |-> ToDict(ts[i])],
     global_denylist |-> gd, require_approval_operations |-> rao]

RECURSIVE LoadInto(_, _, _)
\* the loop of _load_tokens over config["tokens"]: <<tokens, token_lookup>>
LoadInto(ds, ts, lk) ==
    IF ds = <<>> THEN <<ts, lk>>
    ELSE LoadInto(Tail(ds), PutToken(ts, FromDict(Head(ds))),
                  DictSet(lk, Head(ds).token, Head(ds).token_id))

\* TokenManager.__init__ on the persisted record f: <<tokens, token_lookup>>
Loaded(f) == IF f.exists THEN LoadInto(f.tokens, <<>>, EmptyDict) ELSE <<<<>>, EmptyDict>>

----------------------------------------------------------------------------
(* migrate_from_env *)

RECURSIVE Strip(_)
IsSpace(c) == c \in {" ", "\t", "\n"}
\* str.strip
Strip(s) ==
    IF s = <<>> THEN s
    ELSE IF IsSpace(Head(s)) THEN Strip(Tail(s))
    ELSE IF IsSpace(s[Len(s)]) THEN Strip(SubSeq(s, 1, Len(s) - 1))
    ELSE s

RECURSIVE StripAll(_)
\* the stripped, non-empty entries of a list of strings
StripAll(parts) ==
    IF parts = <<>> THEN <<>>
    ELSE IF Strip(Head(parts)) = <<>> THEN StripAll(Tail(parts))
    ELSE <<Strip(Head(parts))>> \o StripAll(Tail(parts))

\* tokens_to_migrate: AUTH_TOKEN split on commas, then the lines of AUTH_TOKEN_FILE
TokensToMigrate(auth_token, auth_token_file) ==
    (IF auth_token.present /\ auth_token.v # <<>> THEN StripAll(Split(auth_token.v, ",")) ELSE <<>>)
    \o (IF auth_token_file.present THEN StripAll(auth_token_file.v) ELSE <<>>)

MigratedId(idx) == <<"m", Digits[idx + 1]>>

RECURSIVE MigrateInto(_, _, _)
\* the loop of migrate_from_env: manager.tokens after it
MigrateInto(list, idx, ts) ==
    IF list = <<>> THEN ts
    ELSE MigrateInto(Tail(list), idx + 1,
                     PutToken(ts, NewTokenInfo(MigratedId(idx), "Migrated Token",
                                               Head(list), {"admin"})))

\* migrate_from_env(auth_token, auth_token_file, output_path): the persisted
\* record it leaves. Its TokenManager loads the record first; its own
\* token_lookup is dropped with it
MigratedFile(f, auth_token, auth_token_file) ==
    LET list == TokensToMigrate(auth_token, auth_token_file)
    IN IF list = <<>> THEN f
       ELSE Saved(MigrateInto(list, 1, Loaded(f)[1]),
                  IF f.exists THEN f.global_denylist ELSE <<>>,
                  IF f.exists THEN f.require_approval_operations ELSE {})

\* setup_security(config_path, auto_migrate=True) with AUTH_TOKEN and
\* AUTH_TOKEN_FILE as given: migrate if there is no record yet, then construct
\* the TokenManager, which loads the record
SetupSecurity(auth_token, auth_token_file) ==
    /\ phase = "down"
    /\ phase' = "up"
    /\ LET f == IF ~file.exists /\ (Truthy(auth_token) \/ Truthy(auth_token_file))
                THEN MigratedFile(file, auth_token, auth_token_file)
                ELSE file
       IN /\ file' = f
          /\ tokens' = Loaded(f)[1]
          /\ token_lookup' = Loaded(f)[2]
          /\ global_denylist' = f.global_denylist
          /\ require_approval_operations' = f.require_approval_operations
    /\ UNCHANGED <<lock, limiterVars, pending, now, fresh, req, adm>>

----------------------------------------------------------------------------
(* TokenManager.validate_token, statement by statement: the lookup and the
   checks read the store without the lock, only the last_used update takes it *)

\* token_id = self.token_lookup.get(token)
ValidateLookup(r) ==
    /\ phase = "up"
    /\ req[r].pc = "lookup"
    /\ req' = [req EXCEPT ![r] =
          IF req[r].token = <<>>
          THEN [Raise(r, 401, "Missing token", 2) EXCEPT !.began = @ \cup {2}]
          ELSE IF req[r].token \notin DOMAIN token_lookup
          THEN [Raise(r, 403, "Invalid token", 2) EXCEPT !.began = @ \cup {2}]
          ELSE [req[r] EXCEPT !.pc = "check", !.token_id = token_lookup[req[r].token],
                              !.began = @ \cup {2}]]
    /\ UNCHANGED <<storeVars, lock, limiterVars, pending, now, fresh, phase, adm>>

\* validate_token with the expiry check ahead of the enabled check
ValidateCheckExpiryFirst(r) ==
    /\ req[r].pc = "check"
    /\ LET token_info == TokenOf(tokens, req[r].token_id)
       IN req' = [req EXCEPT ![r] =
             IF token_info.expires.present /\ now > token_info.expires.v
             THEN Raise(r, 401, "Token expired", 2)
             ELSE IF ~token_info.enabled THEN Raise(r, 403, "Token is disabled", 2)
             ELSE [req[r] EXCEPT !.pc = "touch"]]
    /\ UNCHANGED <<storeVars, lock, limiterVars, pending, now, fresh, phase, adm>>

\* token_info = self.tokens[token_id]; the enabled and the expiry check
ValidateCheck(r) ==
    /\ req[r].pc = "check"
    /\ LET token_info == TokenOf(tokens, req[r].token_id)
       IN req' = [req EXCEPT ![r] =
             IF ~token_info.enabled THEN Raise(r, 403, "Token is disabled", 2)
             ELSE IF token_info.expires.present /\ now > token_info.expires.v
             THEN Raise(r, 401, "Token expired", 2)
             ELSE [req[r] EXCEPT !.pc = "touch"]]
    /\ UNCHANGED <<storeVars, lock, limiterVars, pending, now, fresh, phase, adm>>

\* return token_info: to the caller of validate_token, to step 3 of
\* require_auth_and_permission, or to the scope test of require_admin_token
Validated(r) ==
    IF req[r].kind = "validate"
    THEN [req[r] EXCEPT !.pc = "done", !.status = 200, !.passed = @ \cup {2}]
    ELSE IF req[r].kind = "endpoint"
    THEN [req[r] EXCEPT !.pc = "admin_scope", !.passed = @ \cup {2}]
    ELSE [req[r] EXCEPT !.pc = "perm", !.passed = @ \cup {2}]

\* validate_token updating last_used without the call of save_tokens
ValidateTouchNoSave(r) ==
    /\ req[r].pc = "touch"
    /\ lock = NoOwner
    /\ tokens' = [tokens EXCEPT ![IndexOfToken(tokens, req[r].token_id)].last_used = AtTime(now)]
    /\ file' = file
    /\ req' = [req EXCEPT ![r] = Validated(r)]
    /\ UNCHANGED <<token_lookup, global_denylist, require_approval_operations,
                   lock, limiterVars, pending, now, fresh, phase, adm>>

\* with self.lock: token_info.last_used = datetime.now(); self.save_tokens()
ValidateTouch(r) ==
    /\ req[r].pc = "touch"
    /\ lock = NoOwner
    /\ LET i == IndexOfToken(tokens, req[r].token_id)
           ts == [tokens EXCEPT ![i].last_used = AtTime(now)]
       IN /\ tokens' = ts
          /\ file' = Saved(ts, global_denylist, require_approval_operations)
    /\ req' = [req EXCEPT ![r] = Validated(r)]
    /\ UNCHANGED <<token_lookup, global_denylist, require_approval_operations,
                   lock, limiterVars, pending, now, fresh, phase, adm>>

----------------------------------------------------------------------------
(* TokenManager.rotate_token, statement by statement *)

\* if token_id not in self.tokens: raise ValueError
RotateCheck(a) ==
    /\ adm[a].pc = "rotate"
    /\ adm' = [adm EXCEPT ![a] =
          IF HasToken(tokens, adm[a].token_id)
          THEN [adm[a] EXCEPT !.pc = "rotate_lock"]
          ELSE [adm[a] EXCEPT !.pc = "failed", !.status = "NotFound"]]
    /\ UNCHANGED <<storeVars, lock, limiterVars, pending, now, fresh, phase, req>>

\* with self.lock: old_token = ...; new_token = secrets.token_hex(16);
\* self.tokens[token_id].token = new_token
RotateAssign(a) ==
    /\ adm[a].pc = "rotate_lock"
    /\ lock = NoOwner
    /\ fresh < MaxFresh
    /\ LET i == IndexOfToken(tokens, adm[a].token_id)
       IN /\ adm' = [adm EXCEPT ![a] = [adm[a] EXCEPT !.pc = "rotate_del",
                                          !.old_token = tokens[i].token,
                                          !.new_token = Hex(fresh + 1)]]
          /\ tokens' = [tokens EXCEPT ![i].token = Hex(fresh + 1)]
    /\ fresh' = fresh + 1
    /\ lock' = AdmThread(a)
    /\ UNCHANGED <<token_lookup, global_denylist, require_approval_operations, file,
                   limiterVars, pending, now, phase, req>>

\* rotate_token without the del of the old index entry
RotateDelKeep(a) ==
    /\ adm[a].pc = "rotate_del"
    /\ token_lookup' = token_lookup
    /\ adm' = [adm EXCEPT ![a].pc = "rotate_set"]
    /\ lock' = lock
    /\ UNCHANGED <<tokens, global_denylist, require_approval_operations, file,
                   limiterVars, pending, now, fresh, phase, req>>

\* del self.token_lookup[old_token]: KeyError leaves the with block
RotateDel(a) ==
    /\ adm[a].pc = "rotate_del"
    /\ IF adm[a].old_token \in DOMAIN token_lookup
       THEN /\ token_lookup' = DictDel(token_lookup, adm[a].old_token)
            /\ adm' = [adm EXCEPT ![a].pc = "rotate_set"]
            /\ lock' = lock
       ELSE /\ token_lookup' = token_lookup
            /\ adm' = [adm EXCEPT ![a] = [adm[a] EXCEPT !.pc = "failed", !.status = "KeyError"]]
            /\ lock' = NoOwner
    /\ UNCHANGED <<tokens, global_denylist, require_approval_operations, file,
                   limiterVars, pending, now, fresh, phase, req>>

\* self.token_lookup[new_token] = token_id
RotateSet(a) ==
    /\ adm[a].pc = "rotate_set"
    /\ token_lookup' = DictSet(token_lookup, adm[a].new_token, adm[a].token_id)
    /\ adm' = [adm EXCEPT ![a].pc = "rotate_save"]
    /\ UNCHANGED <<tokens, global_denylist, require_approval_operations, file, lock,
                   limiterVars, pending, now, fresh, phase, req>>

\* save_tokens under a lock that its own holder cannot take again
RotateSaveNotReentrant(a) ==
    /\ adm[a].pc = "rotate_save"
    /\ lock = NoOwner
    /\ file' = Saved(tokens, global_denylist, require_approval_operations)
    /\ lock' = NoOwner
    /\ adm' = [adm EXCEPT ![a] = [adm[a] EXCEPT !.pc = "done", !.status = "ok"]]
    /\ UNCHANGED <<tokens, token_lookup, global_denylist, require_approval_operations,
                   limiterVars, pending, now, fresh, phase, req>>

\* self.save_tokens(); the lock is released; return new_token
RotateSave(a) ==
    /\ adm[a].pc = "rotate_save"
    /\ file' = Saved(tokens, global_denylist, require_approval_operations)
    /\ lock' = NoOwner
    /\ adm' = [adm EXCEPT ![a] = [adm[a] EXCEPT !.pc = "done", !.status = "ok"]]
    /\ UNCHANGED <<tokens, token_lookup, global_denylist, require_approval_operations,
                   limiterVars, pending, now, fresh, phase, req>>

----------------------------------------------------------------------------
(* TokenManager.disable_token, create_token, migrate_legacy_tokens *)

\* disable_token(token_id)
Disable(a) ==
    /\ adm[a].pc = "disable"
    /\ IF ~HasToken(tokens, adm[a].token_id)
       THEN /\ adm' = [adm EXCEPT ![a] = [adm[a] EXCEPT !.pc = "failed", !.status = "NotFound"]]
            /\ UNCHANGED <<tokens, file>>
       ELSE /\ lock = NoOwner
            /\ LET ts == [tokens EXCEPT ![IndexOfToken(tokens, adm[a].token_id)].enabled = FALSE]
               IN /\ tokens' = ts
                  /\ file' = Saved(ts, global_denylist, require_approval_operations)
            /\ adm' = [adm EXCEPT ![a] = [adm[a] EXCEPT !.pc = "done", !.status = "ok"]]
    /\ UNCHANGED <<token_lookup, global_denylist, require_approval_operations, lock,
                   limiterVars, pending, now, fresh, phase, req>>

TokenId(n) == <<"t", Digits[n + 1]>>

\* create_token(name, scopes, expires_in_days): a fresh token_id and a fresh secret
Create(a, scopes, expires_in_days) ==
    /\ adm[a].pc = "create"
    /\ lock = NoOwner
    /\ fresh + 2 <= MaxFresh
    /\ LET info == [NewTokenInfo(TokenId(fresh + 1), "created", Hex(fresh + 2), scopes)
                      EXCEPT !.expires = IF expires_in_days > 0
                                         THEN AtTime(now + expires_in_days * DaySeconds)
                                         ELSE NoTime]
           ts == PutToken(tokens, info)
       IN /\ tokens' = ts
          /\ token_lookup' = DictSet(token_lookup, info.token, info.token_id)
          /\ file' = Saved(ts, global_denylist, require_approval_operations)
          /\ adm' = [adm EXCEPT ![a] = [adm[a] EXCEPT !.pc = "done", !.status = "ok",
                                          !.token_id = info.token_id,
                                          !.new_token = info.token]]
    /\ fresh' = fresh + 2
    /\ UNCHANGED <<global_denylist, require_approval_operations, lock,
                   limiterVars, pending, now, phase, req>>

\* migrate_legacy_tokens(legacy_tokens): a secret already in token_lookup is skipped;
\* for the first other one create_token(..., token=token, ...) hands TokenInfo the
\* keyword token twice, and the TypeError ends the loop before anything is stored
MigrateLegacy(a, legacy_tokens) ==
    /\ adm[a].pc = "migrate_legacy"
    /\ adm' = [adm EXCEPT ![a] =
          IF \A i \in 1..Len(legacy_tokens) : legacy_tokens[i] \in DOMAIN token_lookup
          THEN [adm[a] EXCEPT !.pc = "done", !.status = "ok"]
          ELSE [adm[a] EXCEPT !.pc = "failed", !.status = "TypeError"]]
    /\ UNCHANGED <<storeVars, lock, limiterVars, pending, now, fresh, phase, req>>

\* time passes
Tick ==
    /\ now < MaxTicks * TickSeconds
    /\ now' = now + TickSeconds
    /\ UNCHANGED <<storeVars, lock, limiterVars, pending, fresh, phase, req, adm>>

----------------------------------------------------------------------------
(* RateLimiter *)

MinuteSeconds == 60
HourSeconds == 3600

\* get_token_fingerprint: the first 12 hex digits of the SHA-256 of the secret,
\* kept as a tagged value that is not the secret
Fingerprint(token) == <<"#">> \o token

\* one storage key for a fingerprint, whatever the operation
StorageKeyShared(key, operation) == key

\* storage_key = f"{key}:{operation}" if operation else key
StorageKey(key, operation) == IF operation # <<>> THEN key \o <<":">> \o operation ELSE key

RECURSIVE InsertSorted(_, _)
InsertSorted(seq, t) ==
    IF seq = <<>> \/ t <= Head(seq) THEN <<t>> \o seq
    ELSE <<Head(seq)>> \o InsertSorted(Tail(seq), t)

\* the log of the calls that check_and_record let through, after one more call
\* on storage_key with timestamp t that returned (ok) or raised
LogAdmitted(storage_key, t, ok) ==
    IF ok
    THEN DictSet(admitted, storage_key,
                 InsertSorted(IF storage_key \in DOMAIN admitted THEN admitted[storage_key]
                              ELSE <<>>, t))
    ELSE admitted

\* _check_window without the removal of old entries
PruneNone(history, cutoff) == history

RECURSIVE Prune(_, _)
\* while history and history[0] < cutoff: history.popleft()
Prune(history, cutoff) ==
    IF history # <<>> /\ Head(history) < cutoff THEN Prune(Tail(history), cutoff) ELSE history

\* _check_window appending the timestamp of a call it rejects
CheckWindowAppendRejected(storage, key, t, window, limit, operation) ==
    LET storage_key == StorageKey(key, operation)
        history == Prune(IF storage_key \in DOMAIN storage THEN storage[storage_key] ELSE <<>>,
                         t - window)
    IN [storage |-> DictSet(storage, storage_key, Append(history, t)),
        ok |-> Len(history) < limit, n |-> 1]

\* _check_window on one storage: the storage after it, whether it passed, and
\* how many timestamps it appended
CheckWindow(storage, key, t, window, limit, operation) ==
    LET storage_key == StorageKey(key, operation)
        history == Prune(IF storage_key \in DOMAIN storage THEN storage[storage_key] ELSE <<>>,
                         t - window)
    IN IF Len(history) >= limit
       THEN [storage |-> DictSet(storage, storage_key, history), ok |-> FALSE, n |-> 0]
       ELSE [storage |-> DictSet(storage, storage_key, Append(history, t)), ok |-> TRUE, n |-> 1]

\* a window that limits does not name: nothing is read or written
SkipWindow(storage) == [storage |-> storage, ok |-> TRUE, n |-> 0]

\* check_and_record(token_fp, limits, operation) at timestamp t, under the
\* limiter's lock: minute, then hour, then day; the first window that is full
\* raises RateLimitExceeded and the later ones are not reached
CheckAndRecord(pm, ph, pd, token_fp, limits, operation, t) ==
    LET m == IF "requests_per_minute" \in DOMAIN limits
             THEN CheckWindow(pm, token_fp, t, MinuteSeconds, limits["requests_per_minute"], operation)
             ELSE SkipWindow(pm)
        h == IF m.ok /\ "requests_per_hour" \in DOMAIN limits
             THEN CheckWindow(ph, token_fp, t, HourSeconds, limits["requests_per_hour"], operation)
             ELSE SkipWindow(ph)
        d == IF m.ok /\ h.ok /\ "requests_per_day" \in DOMAIN limits
             THEN CheckWindow(pd, token_fp, t, DaySeconds, limits["requests_per_day"], operation)
             ELSE SkipWindow(pd)
    IN [per_minute |-> m.storage, per_hour |-> h.storage, per_day |-> d.storage,
        ok |-> m.ok /\ h.ok /\ d.ok, n |-> m.n + h.n + d.n,
        window |-> IF ~m.ok THEN "minute" ELSE IF ~h.ok THEN "hour" ELSE IF ~d.ok THEN "day"
                   ELSE "none",
        limit |-> IF ~m.ok THEN limits["requests_per_minute"]
                  ELSE IF ~h.ok THEN limits["requests_per_hour"]
                  ELSE IF ~d.ok THEN limits["requests_per_day"]
                  ELSE 0]

----------------------------------------------------------------------------
(* ApprovalQueue *)

ApprovalTimeout == 30

\* request_approval(operation, details): the entry stored under a fresh request_id
NewPending(operation) == [operation |-> operation, timestamp |-> now, status |-> "pending"]

\* approve / deny answering True whether or not the id is in the queue
DecideAlwaysTrue(a, op, request_id) ==
    /\ phase = "up"
    /\ adm[a].pc = "idle"
    /\ op \in {"approve", "deny"}
    /\ pending' = IF request_id \in DOMAIN pending
                  THEN [pending EXCEPT ![request_id].status =
                           IF op = "approve" THEN "approved" ELSE "denied"]
                  ELSE pending
    /\ adm' = [adm EXCEPT ![a] = [IdleAdm EXCEPT !.pc = "done", !.op = op,
                                    !.token_id = request_id, !.status = "true"]]
    /\ UNCHANGED <<storeVars, lock, limiterVars, now, fresh, phase, req>>

\* approve(request_id) / deny(request_id) by an administrator thread
Decide(a, op, request_id) ==
    /\ phase = "up"
    /\ adm[a].pc = "idle"
    /\ op \in {"approve", "deny"}
    /\ IF request_id \in DOMAIN pending
       THEN /\ pending' = [pending EXCEPT ![request_id].status =
                              IF op = "approve" THEN "approved" ELSE "denied"]
            /\ adm' = [adm EXCEPT ![a] = [IdleAdm EXCEPT !.pc = "done", !.op = op,
                                            !.token_id = request_id, !.status = "true"]]
       ELSE /\ pending' = pending
            /\ adm' = [adm EXCEPT ![a] = [IdleAdm EXCEPT !.pc = "done", !.op = op,
                                            !.token_id = request_id, !.status = "false"]]
    /\ UNCHANGED <<storeVars, lock, limiterVars, now, fresh, phase, req>>

----------------------------------------------------------------------------
(* require_auth_and_permission, step by step *)

BEARER == <<"B", "e", "a", "r", "e", "r", " ">>

\* s.split(sep, 1)[1]: what follows the first sep in s
AfterFirst(s, sep) ==
    LET i == CHOOSE k \in 1..Len(s) : s[k] = sep /\ \A j \in 1..(k - 1) : s[j] # sep
    IN SubSeq(s, i + 1, Len(s))

\* a caller thread calls require_auth_and_permission
CallAuthorize(r, authorization, operation, path, command, skip_rate_limit) ==
    /\ phase = "up"
    /\ req[r].pc = "idle"
    /\ req' = [req EXCEPT ![r] = [IdleReq EXCEPT !.pc = "parse", !.kind = "authorize",
                                    !.authorization = authorization, !.operation = operation,
                                    !.path = path, !.command = command,
                                    !.skip_rate_limit = skip_rate_limit,
                                    !.after = RotationsDone,
                                    !.after_disable = DisablesDone]]
    /\ UNCHANGED <<storeVars, lock, limiterVars, pending, now, fresh, phase, adm>>

\* step 1: the Authorization header
AuthParse(r) ==
    /\ req[r].pc = "parse"
    /\ req' = [req EXCEPT ![r] =
          IF ~Truthy(req[r].authorization) \/ ~StartsWith(req[r].authorization.v, BEARER)
          THEN [Raise(r, 401, "Missing/invalid Authorization header", 1) EXCEPT !.began = @ \cup {1}]
          ELSE [req[r] EXCEPT !.pc = "lookup", !.token = AfterFirst(req[r].authorization.v, " "),
                              !.began = @ \cup {1}, !.passed = @ \cup {1}]]
    /\ UNCHANGED <<storeVars, lock, limiterVars, pending, now, fresh, phase, adm>>

\* step 3 with the token-level check_and_record called ahead of check_permission
AuthCheckPermissionAfterRate(r) ==
    /\ req[r].pc = "perm"
    /\ LET token_info == TokenOf(tokens, req[r].token_id)
           res == CheckPermission(token_info, req[r].operation, req[r].path, req[r].command)
           lim == CheckAndRecord(per_minute, per_hour, per_day, Fingerprint(req[r].token),
                                 token_info.rate_limits, <<>>, now)
       IN /\ per_minute' = lim.per_minute
          /\ admitted' = LogAdmitted(StorageKey(Fingerprint(req[r].token), <<>>), now, lim.ok)
          /\ per_hour' = lim.per_hour
          /\ per_day' = lim.per_day
          /\ req' = [req EXCEPT ![r] =
                IF res.ok
                THEN [req[r] EXCEPT !.pc = "approval", !.began = @ \cup {3},
                                    !.passed = @ \cup {3}, !.recorded = @ + lim.n]
                ELSE [Raise(r, 403, res.reason, 3) EXCEPT !.began = @ \cup {3},
                                                          !.recorded = @ + lim.n]]
    /\ UNCHANGED <<storeVars, lock, pending, now, fresh, phase, adm>>

\* step 3 with the enabled flag of the token read again ahead of check_permission
AuthCheckPermissionRevalidating(r) ==
    /\ req[r].pc = "perm"
    /\ LET token_info == TokenOf(tokens, req[r].token_id)
           res == CheckPermission(token_info, req[r].operation, req[r].path, req[r].command)
       IN req' = [req EXCEPT ![r] =
             IF ~token_info.enabled
             THEN [Raise(r, 403, "Token is disabled", 3) EXCEPT !.began = @ \cup {3}]
             ELSE IF res.ok
             THEN [req[r] EXCEPT !.pc = "approval", !.began = @ \cup {3}, !.passed = @ \cup {3}]
             ELSE [Raise(r, 403, res.reason, 3) EXCEPT !.began = @ \cup {3}]]
    /\ UNCHANGED <<storeVars, lock, limiterVars, pending, now, fresh, phase, adm>>

\* step 3: check_permission on the validated TokenInfo
AuthCheckPermission(r) ==
    /\ req[r].pc = "perm"
    /\ LET res == CheckPermission(TokenOf(tokens, req[r].token_id), req[r].operation,
                                  req[r].path, req[r].command)
       IN req' = [req EXCEPT ![r] =
             IF res.ok
             THEN [req[r] EXCEPT !.pc = "approval", !.began = @ \cup {3}, !.passed = @ \cup {3}]
             ELSE [Raise(r, 403, res.reason, 3) EXCEPT !.began = @ \cup {3}]]
    /\ UNCHANGED <<storeVars, lock, limiterVars, pending, now, fresh, phase, adm>>

\* the approval test leaving out tokens with the admin scope
ApprovalRequiredUnlessAdmin(r) ==
    /\ "admin" \notin TokenOf(tokens, req[r].token_id).scopes
    /\ \/ req[r].operation \in TokenOf(tokens, req[r].token_id).require_approval
       \/ req[r].operation \in require_approval_operations

\* the operation is in the token's or the global approval set
ApprovalRequired(r) ==
    \/ req[r].operation \in TokenOf(tokens, req[r].token_id).require_approval
    \/ req[r].operation \in require_approval_operations

\* step 4, first half: request_approval, and check_approval reads its start time
AuthRequestApproval(r) ==
    /\ req[r].pc = "approval"
    /\ IF ApprovalRequired(r)
       THEN /\ fresh < MaxFresh
            /\ pending' = DictSet(pending, Hex(fresh + 1), NewPending(req[r].operation))
            /\ fresh' = fresh + 1
            /\ req' = [req EXCEPT ![r] = [req[r] EXCEPT !.pc = "wait", !.request_id = Hex(fresh + 1),
                                            !.start = now, !.began = @ \cup {4},
                                            !.created = TRUE]]
       ELSE /\ UNCHANGED <<pending, fresh>>
            /\ req' = [req EXCEPT ![r].pc = "rate"]
    /\ UNCHANGED <<storeVars, lock, limiterVars, now, phase, adm>>

\* step 4, one turn of the loop of check_approval: the time test, then the status
\* read under the queue's lock; a pending entry sends the thread to sleep
AuthPoll(r) ==
    /\ req[r].pc = "wait"
    /\ LET id == req[r].request_id
       IN IF ~(now - req[r].start < ApprovalTimeout)
          THEN /\ req' = [req EXCEPT ![r].pc = "timeout"]
               /\ pending' = pending
          ELSE IF id \notin DOMAIN pending
          THEN /\ req' = [req EXCEPT ![r] = Raise(r, 403, "Approval denied or timed out", 4)]
               /\ pending' = pending
          ELSE IF pending[id].status = "approved"
          THEN /\ req' = [req EXCEPT ![r] = [req[r] EXCEPT !.pc = "rate", !.passed = @ \cup {4}]]
               /\ pending' = DictDel(pending, id)
          ELSE IF pending[id].status = "denied"
          THEN /\ req' = [req EXCEPT ![r] = Raise(r, 403, "Approval denied or timed out", 4)]
               /\ pending' = DictDel(pending, id)
          ELSE UNCHANGED <<req, pending>>
    /\ UNCHANGED <<storeVars, lock, limiterVars, now, fresh, phase, adm>>

\* check_approval returning False after the loop without the removal
AuthTimeoutKeep(r) ==
    /\ req[r].pc = "timeout"
    /\ pending' = pending
    /\ req' = [req EXCEPT ![r] = Raise(r, 403, "Approval denied or timed out", 4)]
    /\ UNCHANGED <<storeVars, lock, limiterVars, now, fresh, phase, adm>>

\* the cleanup after the loop reading the status once more before it removes
\* the entry
AuthTimeoutLastLook(r) ==
    /\ req[r].pc = "timeout"
    /\ pending' = IF req[r].request_id \in DOMAIN pending
                  THEN DictDel(pending, req[r].request_id) ELSE pending
    /\ req' = [req EXCEPT ![r] =
          IF req[r].request_id \in DOMAIN pending
             /\ pending[req[r].request_id].status = "approved"
          THEN [req[r] EXCEPT !.pc = "rate", !.passed = @ \cup {4}]
          ELSE Raise(r, 403, "Approval denied or timed out", 4)]
    /\ UNCHANGED <<storeVars, lock, limiterVars, now, fresh, phase, adm>>

\* step 4, after the loop: the entry is removed and the wait returns False
AuthTimeout(r) ==
    /\ req[r].pc = "timeout"
    /\ pending' = IF req[r].request_id \in DOMAIN pending
                  THEN DictDel(pending, req[r].request_id) ELSE pending
    /\ req' = [req EXCEPT ![r] = Raise(r, 403, "Approval denied or timed out", 4)]
    /\ UNCHANGED <<storeVars, lock, limiterVars, now, fresh, phase, adm>>

\* step 5 begins: skip_rate_limit ends the call; otherwise check_and_record reads
\* the clock before it asks for the limiter's lock
AuthRate(r) ==
    /\ req[r].pc = "rate"
    /\ req' = [req EXCEPT ![r] =
          IF req[r].skip_rate_limit
          THEN [req[r] EXCEPT !.pc = "done", !.status = 200]
          ELSE [req[r] EXCEPT !.pc = "limit_token", !.t = now, !.began = @ \cup {5}]]
    /\ UNCHANGED <<storeVars, lock, limiterVars, pending, now, fresh, phase, adm>>

\* step 5: the token-level limits, under the limiter's lock
AuthLimitToken(r) ==
    /\ req[r].pc = "limit_token"
    /\ LET token_info == TokenOf(tokens, req[r].token_id)
           res == CheckAndRecord(per_minute, per_hour, per_day, Fingerprint(req[r].token),
                                 token_info.rate_limits, <<>>, req[r].t)
       IN /\ per_minute' = res.per_minute
          /\ admitted' = LogAdmitted(StorageKey(Fingerprint(req[r].token), <<>>), req[r].t, res.ok)
          /\ per_hour' = res.per_hour
          /\ per_day' = res.per_day
          /\ req' = [req EXCEPT ![r] =
                IF ~res.ok
                THEN [Raise(r, 429, res.window, 5) EXCEPT !.recorded = @ + res.n,
                                                          !.limit = res.limit]
                ELSE IF req[r].operation \in DOMAIN token_info.operation_limits
                THEN [req[r] EXCEPT !.pc = "rate_op", !.recorded = @ + res.n]
                ELSE [req[r] EXCEPT !.pc = "done", !.status = 200, !.recorded = @ + res.n,
                                    !.passed = @ \cup {5}]]
    /\ UNCHANGED <<storeVars, lock, pending, now, fresh, phase, adm>>

\* step 5: the second check_and_record reads the clock
AuthRateOp(r) ==
    /\ req[r].pc = "rate_op"
    /\ req' = [req EXCEPT ![r] = [req[r] EXCEPT !.pc = "limit_op", !.t = now]]
    /\ UNCHANGED <<storeVars, lock, limiterVars, pending, now, fresh, phase, adm>>

\* step 5: the operation-specific limits, under the limiter's lock
AuthLimitOp(r) ==
    /\ req[r].pc = "limit_op"
    /\ LET token_info == TokenOf(tokens, req[r].token_id)
           res == CheckAndRecord(per_minute, per_hour, per_day, Fingerprint(req[r].token),
                                 token_info.operation_limits[req[r].operation],
                                 req[r].operation, req[r].t)
       IN /\ per_minute' = res.per_minute
          /\ admitted' = LogAdmitted(StorageKey(Fingerprint(req[r].token), req[r].operation),
                                     req[r].t, res.ok)
          /\ per_hour' = res.per_hour
          /\ per_day' = res.per_day
          /\ req' = [req EXCEPT ![r] =
                IF ~res.ok
                THEN [Raise(r, 429, res.window, 5) EXCEPT !.recorded = @ + res.n,
                                                          !.limit = res.limit]
                ELSE [req[r] EXCEPT !.pc = "done", !.status = 200, !.recorded = @ + res.n,
                                    !.passed = @ \cup {5}]]
    /\ UNCHANGED <<storeVars, lock, pending, now, fresh, phase, adm>>

----------------------------------------------------------------------------
(* Calls *)

\* a caller thread calls validate_token(token), as require_admin_token does
CallValidate(r, token) ==
    /\ phase = "up"
    /\ req[r].pc = "idle"
    /\ req' = [req EXCEPT ![r] = [IdleReq EXCEPT !.pc = "lookup", !.kind = "validate",
                                    !.token = token, !.after = RotationsDone,
                                    !.after_disable = DisablesDone]]
    /\ UNCHANGED <<storeVars, lock, limiterVars, pending, now, fresh, phase, adm>>

\* an administrator thread calls rotate_token(token_id) or disable_token(token_id)
CallOnToken(a, op, token_id) ==
    /\ phase = "up"
    /\ adm[a].pc = "idle"
    /\ op \in {"rotate", "disable"}
    /\ adm' = [adm EXCEPT ![a] = [IdleAdm EXCEPT !.pc = op, !.op = op, !.token_id = token_id]]
    /\ UNCHANGED <<storeVars, lock, limiterVars, pending, now, fresh, phase, req>>

\* an administrator thread calls create_token or migrate_legacy_tokens
CallAdmin(a, op) ==
    /\ phase = "up"
    /\ adm[a].pc = "idle"
    /\ op \in {"create", "migrate_legacy"}
    /\ adm' = [adm EXCEPT ![a] = [IdleAdm EXCEPT !.pc = op, !.op = op]]
    /\ UNCHANGED <<storeVars, lock, limiterVars, pending, now, fresh, phase, req>>

----------------------------------------------------------------------------
(* The Token Store under concurrent administration: the process is set up from
   the environment, constructs its store, then serves validate_token calls
   while administrators rotate, disable, create and migrate *)

SecretA == <<"a">>
SecretB == <<"b">>
\* values of AUTH_TOKEN: unset, two secrets, one secret twice
EnvAuthTokens == {None, Some(<<"a", ",", " ", "b">>), Some(<<"a", ",", "a">>)}
\* contents of AUTH_TOKEN_FILE: unset, or a secret and an empty line
EnvAuthTokenFiles == {None, Some(<< <<"a", "\n">>, <<"\n">> >>)}

TokenIdsInUse == {tokens[i].token_id : i \in 1..Len(tokens)}
\* secrets a caller may present: the operator's, the generated ones, and a wrong one
SecretsInUse == {SecretA, SecretB, <<"z">>} \cup {Hex(n) : n \in 1..fresh}

InitDown ==
    /\ tokens = <<>>
    /\ token_lookup = EmptyDict
    /\ global_denylist = <<>>
    /\ require_approval_operations = {}
    /\ file = NoFile
    /\ lock = NoOwner
    /\ per_minute = EmptyDict /\ per_hour = EmptyDict /\ per_day = EmptyDict
    /\ admitted = EmptyDict
    /\ pending = EmptyDict
    /\ now = 0
    /\ fresh = 0
    /\ phase = "down"
    /\ req = [r \in Reqs |-> IdleReq]
    /\ adm = [a \in Admins |-> IdleAdm]

StoreNext ==
    \/ \E t \in EnvAuthTokens, f \in EnvAuthTokenFiles : SetupSecurity(t, f)
    \/ \E r \in {1}, s \in SecretsInUse : CallValidate(r, s)
    \/ \E r \in Reqs : ValidateLookup(r)
    \/ \E r \in Reqs : ValidateCheck(r)
    \/ \E r \in Reqs : ValidateTouch(r)
    \/ \E a \in Admins, op \in {"rotate", "disable"}, id \in TokenIdsInUse \cup {TokenId(0)} :
          CallOnToken(a, op, id)
    \/ \E a \in Admins, op \in {"create", "migrate_legacy"} : CallAdmin(a, op)
    \/ \E a \in Admins : RotateCheck(a)
    \/ \E a \in Admins : RotateAssign(a)
    \/ \E a \in Admins : RotateDel(a)
    \/ \E a \in Admins : RotateSet(a)
    \/ \E a \in Admins : RotateSave(a)
    \/ \E a \in Admins : Disable(a)
    \/ \E a \in Admins, e \in {0, 1} : Create(a, {"read"}, e)
    \/ \E a \in Admins, l \in {<<SecretA>>, <<SecretB, SecretA>>} : MigrateLegacy(a, l)
    \/ Tick

SpecStore == InitDown /\ [][StoreNext]_vars

----------------------------------------------------------------------------
(* Rotation and the secret-to-id index *)

Finished(r) == req[r].pc \in {"done", "failed"}
RotationReturned(a) == adm[a].op = "rotate" /\ adm[a].pc = "done"
\* rotate_token is between its first and its last statement under the lock
RotationInProgress(a) == adm[a].pc \in {"rotate_del", "rotate_set", "rotate_save"}
\* the secret was retired again by a later rotation of the same token
Superseded(s) ==
    \E b \in Admins : adm[b].op = "rotate" /\ adm[b].old_token = s
                      /\ (RotationInProgress(b) \/ adm[b].pc \in {"done", "failed"})

\* C8: once rotate(id) has returned S', the index no longer holds the old secret
\* and maps S' to id for as long as S' is the token's secret; a validation that
\* began after the return rejects the old secret as unknown, and one presenting
\* S' resolves to id and can fail only because the token is disabled or expired
\* (or S' was itself rotated away in the meantime)
C8_RotateThenValidate ==
    /\ \A a \in Admins : RotationReturned(a) =>
          /\ adm[a].old_token \notin DOMAIN token_lookup
          /\ TokenOf(tokens, adm[a].token_id).token = adm[a].new_token =>
                /\ adm[a].new_token \in DOMAIN token_lookup
                /\ token_lookup[adm[a].new_token] = adm[a].token_id
    /\ \A r \in Reqs : \A a \in req[r].after : Finished(r) =>
          /\ req[r].token = adm[a].old_token =>
                req[r].pc = "failed" /\ req[r].status = 403 /\ req[r].detail = "Invalid token"
          /\ (req[r].token = adm[a].new_token /\ req[r].pc = "done") =>
                req[r].token_id = adm[a].token_id
          /\ (req[r].token = adm[a].new_token /\ req[r].pc = "failed") =>
                \/ req[r].detail \in {"Token is disabled", "Token expired"}
                \/ Superseded(adm[a].new_token)

\* a validation that began after a rotation returned presented the new secret and
\* succeeded, and another one presented the old secret
C8_Witness ==
    \E a \in Admins : \E r \in Reqs :
        /\ a \in req[r].after /\ req[r].pc = "done"
        /\ req[r].token = adm[a].new_token /\ req[r].token_id = adm[a].token_id

\* C9: while rotate(id) runs and a validate call is about to read the index,
\* exactly one of the old and the new secret is in the index
C9_ExactlyOneIndexed ==
    \A a \in Admins : \A r \in Reqs :
        (RotationInProgress(a) /\ req[r].pc = "lookup") =>
            ((adm[a].old_token \in DOMAIN token_lookup)
                 # (adm[a].new_token \in DOMAIN token_lookup))

\* the index is exactly the pairs secret -> token_id of the token records, and
\* no two records share a secret
IndexExact ==
    /\ \A i \in 1..Len(tokens) :
          /\ tokens[i].token \in DOMAIN token_lookup
          /\ token_lookup[tokens[i].token] = tokens[i].token_id
    /\ \A s \in DOMAIN token_lookup :
          \E i \in 1..Len(tokens) : tokens[i].token = s /\ tokens[i].token_id = token_lookup[s]
    /\ \A i, j \in 1..Len(tokens) : i # j => tokens[i].token # tokens[j].token

\* C10: whenever no Token Store operation is inside its critical section, the
\* index is exactly the set of pairs record.secret -> record.token_id
C10_IndexExact == (phase = "up" /\ lock = NoOwner) => IndexExact

----------------------------------------------------------------------------
(* One authorize call against a store that holds one token: the token's
   scopes and rules, the global denylist and the request are drawn from the
   cases below *)

Scopes == {"read", "write", "write:destructive", "exec", "exec:sudo", "admin"}
KnownOps == {FS_LS, FS_READ, FS_WRITE, FS_MKDIR, FS_RM, EXEC}

\* paths: /e/p, /ex, /lx, /l/f (through the link /l -> /t), /t/f, /h/s/k,
\* /e/../t/f, ~/s/k and the relative r
PathEP == <<"/", "e", "/", "p">>
PathEx == <<"/", "e", "x">>
PathLx == <<"/", "l", "x">>
PathLF == <<"/", "l", "/", "f">>
PathTF == <<"/", "t", "/", "f">>
PathHSK == <<"/", "h", "/", "s", "/", "k">>
PathDotDot == <<"/", "e", "/", ".", ".", "/", "t", "/", "f">>
PathTilde == <<"~", "/", "s", "/", "k">>
PathRel == <<"r">>
PermPaths == {PathEP, PathEx, PathLx, PathLF, PathTF, PathHSK, PathDotDot, PathTilde, PathRel}

\* list entries: /e, the link /l, its target /t, ~/s and the relative r
EntryE == <<"/", "e">>
EntryL == <<"/", "l">>
EntryT == <<"/", "t">>
EntryTildeS == <<"~", "/", "s">>

LS == <<"l", "s">>
RM == <<"r", "m">>
BinRm == <<"/", "b", "/", "r", "m">>
GIT == <<"g", "i", "t">>
PUSH == <<"p", "u", "s", "h">>
GitPush == <<"g", "i", "t", " ", "p", "u", "s", "h">>
PermCommands == {None, Some(<<>>), Some(<<LS>>), Some(<<SUDO, LS>>), Some(<<LS, SUDO>>)}

PermTokenId == <<"t", "0">>

\* a token record of tokens.json
ConfigToken(token_id, token, scopes, pa, pd, ca, cd) ==
    [ToDict(NewTokenInfo(token_id, "configured", token, scopes))
        EXCEPT !.path_allowlist = pa, !.path_denylist = pd,
               !.command_allowlist = ca, !.command_denylist = cd]

ConfigFile(ts, gd, rao) ==
    [exists |-> TRUE, tokens |-> ts, global_denylist |-> gd, require_approval_operations |-> rao]

Case(scopes, pa, pd, ca, cd, gd, operation, path, command) ==
    [file |-> ConfigFile(<<ConfigToken(PermTokenId, SecretA, scopes, pa, pd, ca, cd)>>, gd, {}),
     operation |-> operation, path |-> path, command |-> command]

\* every scope set, against every operation, with and without sudo
ScopeCases ==
    {Case(sc, None, None, None, None, <<>>, o, p, c) :
        sc \in SUBSET Scopes, o \in KnownOps \cup {LEGACY}, p \in {None, Some(PathEP)},
        c \in PermCommands}

\* the path rules: allowlist, denylist and global denylist against every path
PathCases ==
    {Case(sc, pa, pd, None, None, gd, o, p, None) :
        sc \in {{}, {"read"}, {"read", "write"}, {"admin"}},
        pa \in {None, Some(<<>>), Some(<<EntryT>>), Some(<<EntryTildeS, EntryE>>)},
        pd \in {None, Some(<<EntryE>>), Some(<<EntryL>>), Some(<<EntryTildeS>>)},
        gd \in {<<>>, <<EntryE>>, <<EntryL>>},
        o \in {FS_READ, FS_WRITE, LEGACY},
        p \in {None} \cup {Some(x) : x \in PermPaths}}

\* the command rules
CommandCases ==
    {Case(sc, None, None, ca, cd, <<>>, o, None, c) :
        sc \in {{"exec"}, {"exec", "exec:sudo"}, {"admin"}},
        ca \in {None, Some(<<>>), Some(<<GIT>>), Some(<<GIT, RM>>)},
        cd \in {None, Some(<<RM>>), Some(<<GitPush>>)},
        o \in {EXEC, LEGACY},
        c \in {Some(<<LS>>), Some(<<BinRm, LS>>), Some(<<GIT, PUSH>>), Some(<<GIT>>),
               Some(<<SUDO, GIT>>)}}

PermCases == ScopeCases \cup PathCases \cup CommandCases

\* the store as TokenManager(config_path) leaves it on the record f
StoreLoaded(f) ==
    /\ file = f
    /\ tokens = Loaded(f)[1]
    /\ token_lookup = Loaded(f)[2]
    /\ global_denylist = f.global_denylist
    /\ require_approval_operations = f.require_approval_operations
    /\ lock = NoOwner
    /\ phase = "up"

InitPerm ==
    \E c \in PermCases :
        /\ StoreLoaded(c.file)
        /\ per_minute = EmptyDict /\ per_hour = EmptyDict /\ per_day = EmptyDict
        /\ admitted = EmptyDict
        /\ pending = EmptyDict
        /\ now = 0
        /\ fresh = 0
        /\ req = [r \in Reqs |->
                    IF r = 1
                    THEN [IdleReq EXCEPT !.pc = "parse", !.kind = "authorize",
                                         !.authorization = Some(BEARER \o SecretA),
                                         !.operation = c.operation, !.path = c.path,
                                         !.command = c.command]
                    ELSE IdleReq]
        /\ adm = [a \in Admins |-> IdleAdm]

PermNext ==
    \/ \E r \in Reqs : AuthParse(r)
    \/ \E r \in Reqs : ValidateLookup(r)
    \/ \E r \in Reqs : ValidateCheck(r)
    \/ \E r \in Reqs : ValidateTouch(r)
    \/ \E r \in Reqs : AuthCheckPermission(r)
    \/ \E r \in Reqs : AuthRequestApproval(r)
    \/ \E r \in Reqs : AuthRate(r)
    \/ \E r \in Reqs : AuthLimitToken(r)

SpecPerm == InitPerm /\ [][PermNext]_vars

----------------------------------------------------------------------------
(* Scopes and path rules, observed at step 3 of authorize *)

\* step 3 of the call has run
PermDecided(r) == req[r].kind = "authorize" /\ 3 \in req[r].began
\* the call ended as HTTP 403 raised by check_permission
PermForbidden(r) == req[r].pc = "failed" /\ req[r].status = 403 /\ req[r].failed_at = 3
TokenInfoOf(r) == TokenOf(tokens, req[r].token_id)
NoUsageRecorded(r) ==
    /\ req[r].recorded = 0
    /\ 5 \notin req[r].began
    /\ per_minute = EmptyDict /\ per_hour = EmptyDict /\ per_day = EmptyDict
    /\ admitted = EmptyDict

\* the token's scope set lacks the scope the operation maps to
LacksScope(r) ==
    LET sc == TokenInfoOf(r).scopes
        o == req[r].operation
    IN \/ o \in {FS_LS, FS_READ} /\ "read" \notin sc
       \/ o \in {FS_WRITE, FS_MKDIR} /\ "write" \notin sc
       \/ o = FS_RM /\ "write:destructive" \notin sc
       \/ o = EXEC /\ "exec" \notin sc
       \/ /\ o = EXEC /\ "exec:sudo" \notin sc
          /\ req[r].command.present
          /\ \E i \in 1..Len(req[r].command.v) : req[r].command.v[i] = SUDO

\* some entry of the list, taken as written, is a prefix of the string s
RawPrefix(list, s) == \E i \in 1..Len(list) : StartsWith(s, list[i])
\* some entry of the list, user-expanded and resolved, is a prefix of the
\* resolved form of the path p
ResolvedPrefix(list, p) ==
    \E i \in 1..Len(list) : StartsWith(Resolve(p), Resolve(ExpandUser(list[i])))

\* C2: a token without admin scope that lacks the scope of a known operation
\* (exec:sudo included when the command holds the element sudo) makes authorize
\* fail Forbidden at the scope check, naming the scope, whatever the path and
\* command rules would say, and no rate-limit usage is recorded
C2_MissingScopeForbidden ==
    \A r \in Reqs :
        (PermDecided(r) /\ "admin" \notin TokenInfoOf(r).scopes
            /\ req[r].operation \in KnownOps /\ LacksScope(r)) =>
            /\ PermForbidden(r)
            /\ req[r].detail \in Scopes
            /\ NoUsageRecorded(r)

\* a token holding write:destructive but not write asked for fs_write and was
\* refused for the write scope
C2_Witness ==
    \E r \in Reqs :
        /\ PermForbidden(r) /\ req[r].detail = "write" /\ req[r].operation = FS_WRITE
        /\ "write:destructive" \in TokenInfoOf(r).scopes
        /\ "write" \notin TokenInfoOf(r).scopes

\* C3 as stated: a token without admin scope with a denylist entry D, and a path
\* whose resolved form has D, as written, as a prefix: authorize fails Forbidden
C3_DenylistPrecedenceAsWritten ==
    \A r \in Reqs :
        (PermDecided(r) /\ "admin" \notin TokenInfoOf(r).scopes /\ req[r].path.present
            /\ Truthy(TokenInfoOf(r).path_denylist)
            /\ RawPrefix(TokenInfoOf(r).path_denylist.v, Resolve(req[r].path.v))) =>
            PermForbidden(r)

\* C3: a token without admin scope with a denylist entry D, and a path whose
\* resolved form has the user-expanded, resolved form of D as a prefix:
\* authorize fails Forbidden, and when the scope is held the path check is what
\* refuses, whatever the allowlist contains
C3_DenylistPrecedence ==
    \A r \in Reqs :
        (PermDecided(r) /\ "admin" \notin TokenInfoOf(r).scopes /\ req[r].path.present
            /\ Truthy(TokenInfoOf(r).path_denylist)
            /\ ResolvedPrefix(TokenInfoOf(r).path_denylist.v, req[r].path.v)) =>
            /\ PermForbidden(r)
            /\ ~LacksScope(r) => req[r].detail = "Path not allowed"

\* a path under both a denylist entry and an allowlist entry was refused by the
\* path check
C3_Witness ==
    \E r \in Reqs :
        /\ PermForbidden(r) /\ req[r].detail = "Path not allowed"
        /\ Truthy(TokenInfoOf(r).path_denylist) /\ Truthy(TokenInfoOf(r).path_allowlist)
        /\ ResolvedPrefix(TokenInfoOf(r).path_denylist.v, req[r].path.v)
        /\ ResolvedPrefix(TokenInfoOf(r).path_allowlist.v, req[r].path.v)
        /\ ~ResolvedPrefix(global_denylist, req[r].path.v)

\* C4 as stated: a token without admin scope with a non-empty allowlist, and a
\* path that has no allowlist entry, as written, as a prefix (neither the path
\* as given nor its resolved form has): authorize fails Forbidden
C4_DefaultDenyAsWritten ==
    \A r \in Reqs :
        (PermDecided(r) /\ "admin" \notin TokenInfoOf(r).scopes /\ req[r].path.present
            /\ Truthy(TokenInfoOf(r).path_allowlist)
            /\ ~RawPrefix(TokenInfoOf(r).path_allowlist.v, req[r].path.v)
            /\ ~RawPrefix(TokenInfoOf(r).path_allowlist.v, Resolve(req[r].path.v))) =>
            PermForbidden(r)

\* C4: a token without admin scope with a non-empty allowlist, and a path whose
\* resolved form has no user-expanded, resolved allowlist entry as a prefix:
\* authorize fails Forbidden even when no denylist entry matches
C4_DefaultDeny ==
    \A r \in Reqs :
        (PermDecided(r) /\ "admin" \notin TokenInfoOf(r).scopes /\ req[r].path.present
            /\ Truthy(TokenInfoOf(r).path_allowlist)
            /\ ~ResolvedPrefix(TokenInfoOf(r).path_allowlist.v, req[r].path.v)) =>
            /\ PermForbidden(r)
            /\ ~LacksScope(r) => req[r].detail = "Path not allowed"

\* a path outside a non-empty allowlist and outside every denylist was refused by
\* the path check
C4_Witness ==
    \E r \in Reqs :
        /\ PermForbidden(r) /\ req[r].detail = "Path not allowed"
        /\ Truthy(TokenInfoOf(r).path_allowlist)
        /\ ~ResolvedPrefix(TokenInfoOf(r).path_allowlist.v, req[r].path.v)
        /\ ~ResolvedPrefix(global_denylist, req[r].path.v)
        /\ ~Truthy(TokenInfoOf(r).path_denylist)

\* C5: a token without admin scope whose path allowlist is present but empty is
\* refused every path
C5_EmptyAllowlistDenies ==
    \A r \in Reqs :
        (PermDecided(r) /\ "admin" \notin TokenInfoOf(r).scopes /\ req[r].path.present
            /\ TokenInfoOf(r).path_allowlist.present
            /\ TokenInfoOf(r).path_allowlist.v = <<>>) =>
            PermForbidden(r)

\* C6 as stated: any token, whatever its scopes, and any path that has a
\* global-denylist entry as a prefix (as written and in resolved form alike):
\* check_permission fails Forbidden
C6_GlobalDenylistEveryToken ==
    \A r \in Reqs :
        (PermDecided(r) /\ req[r].path.present
            /\ RawPrefix(global_denylist, req[r].path.v)
            /\ ResolvedPrefix(global_denylist, req[r].path.v)) =>
            PermForbidden(r)

\* C6: any token without admin scope, whatever its allowlist or denylist, and
\* any path whose resolved form has the user-expanded, resolved form of a
\* global-denylist entry as a prefix: check_permission fails Forbidden
C6_GlobalDenylist ==
    \A r \in Reqs :
        (PermDecided(r) /\ "admin" \notin TokenInfoOf(r).scopes /\ req[r].path.present
            /\ ResolvedPrefix(global_denylist, req[r].path.v)) =>
            /\ PermForbidden(r)
            /\ ~LacksScope(r) => req[r].detail = "Path not allowed"

\* a token holding the scope, with an allowlist entry over the path and no
\* denylist of its own, was refused a path under the global denylist
C6_Witness ==
    \E r \in Reqs :
        /\ PermForbidden(r) /\ req[r].detail = "Path not allowed"
        /\ ResolvedPrefix(global_denylist, req[r].path.v)
        /\ ~Truthy(TokenInfoOf(r).path_denylist)
        /\ Truthy(TokenInfoOf(r).path_allowlist)
        /\ ResolvedPrefix(TokenInfoOf(r).path_allowlist.v, req[r].path.v)

\* C7: with the admin scope check_permission allows every operation, path and
\* command: step 3 never raises and the call goes on to the next step
C7_AdminAllowed ==
    \A r \in Reqs :
        (PermDecided(r) /\ "admin" \in TokenInfoOf(r).scopes) =>
            /\ 3 \in req[r].passed
            /\ req[r].failed_at # 3

\* an admin token without the write scope was allowed fs_write on a path under
\* the global denylist and its own denylist
C7_Witness ==
    \E r \in Reqs :
        /\ 3 \in req[r].passed
        /\ TokenInfoOf(r).scopes = {"admin"}
        /\ req[r].operation = FS_WRITE /\ req[r].path.present
        /\ ResolvedPrefix(global_denylist, req[r].path.v)
        /\ Truthy(TokenInfoOf(r).path_denylist)
        /\ ResolvedPrefix(TokenInfoOf(r).path_denylist.v, req[r].path.v)

----------------------------------------------------------------------------
(* Concurrent authorize calls and administrators against a configured store *)

ConfigRequestsPerMinute == 1

TokenIdA == <<"t", "a">>
TokenIdB == <<"t", "b">>

\* tokens.json: token A may read, write and remove, is denied /e, needs approval
\* for fs_write and has a limit of its own for fs_read; token B is disabled;
\* fs_rm needs approval for every token
ConfigTokenA ==
    [ConfigToken(TokenIdA, SecretA, {"read", "write", "write:destructive"},
                 None, Some(<<EntryE>>), None, None)
        EXCEPT !.rate_limits = Some([w \in {"requests_per_minute"} |-> ConfigRequestsPerMinute]),
               !.operation_limits =
                   Some([o \in {FS_READ} |->
                           [w \in {"requests_per_minute"} |-> ConfigRequestsPerMinute]]),
               !.require_approval = Some({FS_WRITE})]
ConfigTokenB ==
    [ConfigToken(TokenIdB, SecretB, {"read"}, None, None, None, None)
        EXCEPT !.enabled = Some(FALSE)]
Config == ConfigFile(<<ConfigTokenA, ConfigTokenB>>, <<>>, {FS_RM})

Call(authorization, operation, path, skip_rate_limit) ==
    [authorization |-> authorization, operation |-> operation, path |-> path,
     command |-> None, skip_rate_limit |-> skip_rate_limit]

\* the calls of the endpoints: no header, a header without Bearer, an unknown and
\* a disabled secret, and token A on each operation
AuthCalls ==
    {Call(None, FS_READ, Some(PathTF), FALSE),
     Call(Some(SecretA), FS_READ, Some(PathTF), FALSE),
     Call(Some(BEARER \o <<"z">>), FS_READ, Some(PathTF), FALSE),
     Call(Some(BEARER \o SecretB), FS_READ, Some(PathTF), FALSE),
     Call(Some(BEARER \o SecretA), FS_READ, Some(PathEP), FALSE),
     Call(Some(BEARER \o SecretA), FS_READ, Some(PathTF), TRUE),
     Call(Some(BEARER \o SecretA), FS_WRITE, Some(PathTF), TRUE)}
    \cup {Call(Some(BEARER \o SecretA), o, Some(PathTF), FALSE) :
            o \in {FS_READ, FS_WRITE, FS_RM, EXEC}}

Init ==
    /\ StoreLoaded(Config)
    /\ per_minute = EmptyDict /\ per_hour = EmptyDict /\ per_day = EmptyDict
    /\ admitted = EmptyDict
    /\ pending = EmptyDict
    /\ now = 0
    /\ fresh = 0
    /\ req = [r \in Reqs |-> IdleReq]
    /\ adm = [a \in Admins |-> IdleAdm]

Next ==
    \/ \E r \in Reqs, c \in AuthCalls :
          CallAuthorize(r, c.authorization, c.operation, c.path, c.command, c.skip_rate_limit)
    \/ \E r \in Reqs : AuthParse(r)
    \/ \E r \in Reqs : ValidateLookup(r)
    \/ \E r \in Reqs : ValidateCheck(r)
    \/ \E r \in Reqs : ValidateTouch(r)
    \/ \E r \in Reqs : AuthCheckPermission(r)
    \/ \E r \in Reqs : AuthRequestApproval(r)
    \/ \E r \in Reqs : AuthPoll(r)
    \/ \E r \in Reqs : AuthTimeout(r)
    \/ \E r \in Reqs : AuthRate(r)
    \/ \E r \in Reqs : AuthLimitToken(r)
    \/ \E r \in Reqs : AuthRateOp(r)
    \/ \E r \in Reqs : AuthLimitOp(r)
    \/ \E a \in {1}, op \in {"approve", "deny"}, n \in 1..MaxFresh : Decide(a, op, Hex(n))
    \/ Tick

Spec == Init /\ [][Next]_vars

----------------------------------------------------------------------------
(* The order of the steps of authorize *)

\* what the history of one call may look like
StepsInOrder(r) ==
    /\ 2 \in req[r].began => 1 \in req[r].passed
    /\ 3 \in req[r].began => 2 \in req[r].passed
    /\ 4 \in req[r].began => (3 \in req[r].passed /\ ApprovalRequired(r))
    /\ 5 \in req[r].began =>
          /\ 3 \in req[r].passed
          /\ ApprovalRequired(r) <=> 4 \in req[r].passed
    /\ req[r].failed_at \in 1..4 => req[r].recorded = 0
    /\ req[r].failed_at \in 1..3 => (~req[r].created /\ req[r].request_id = NoStr)

\* a step that changes a rate-limiter history is step 5 of a call that passed
\* every earlier step, and a step that adds a pending entry is step 4 of a call
\* that passed steps 1 to 3
StepInOrder ==
    /\ limiterVars' # limiterVars =>
          \E r \in Reqs :
              /\ req[r].pc \in {"limit_token", "limit_op"} /\ req'[r] # req[r]
              /\ {1, 2, 3} \subseteq req[r].passed
              /\ ApprovalRequired(r) <=> 4 \in req[r].passed
    /\ DOMAIN pending' # DOMAIN pending /\ DOMAIN pending \subseteq DOMAIN pending' =>
          \E r \in Reqs :
              /\ req[r].pc = "approval" /\ {1, 2, 3} \subseteq req[r].passed
              /\ DOMAIN pending' = DOMAIN pending \cup {req'[r].request_id}

\* C1: authorize runs header parse, validate, check_permission, the approval
\* wait (only for an operation in the token's or the global approval set) and
\* rate limiting in that order and starts no step unless the earlier ones
\* succeeded: a call that failed at steps 1 to 4 recorded no rate-limit usage,
\* a call that failed at steps 1 to 3 created no pending entry, and only a call
\* past the earlier steps changes a limiter history or adds a pending entry
C1_FixedOrder == [](\A r \in Reqs : StepsInOrder(r)) /\ [][StepInOrder]_vars

\* one call created a pending entry and failed at the approval wait with no
\* usage recorded, while another call went through rate limiting and returned
C1_Witness ==
    \E r, q \in Reqs :
        /\ req[r].pc = "failed" /\ req[r].failed_at = 4 /\ req[r].created
        /\ req[r].recorded = 0
        /\ req[q].pc = "done" /\ req[q].recorded > 0
        /\ per_minute # EmptyDict /\ pending = EmptyDict

----------------------------------------------------------------------------
(* The approval queue: two callers whose operations need approval, and two
   administrators who decide on the request ids that were handed out *)

\* token A on fs_write (its own approval set) and fs_rm (the global one)
QueueCalls ==
    {Call(Some(BEARER \o SecretA), o, Some(PathTF), FALSE) : o \in {FS_WRITE, FS_RM}}

\* the request ids request_approval has returned
IssuedIds == {req[r].request_id : r \in Reqs} \ {NoStr}

QueueNext ==
    \/ \E r \in Reqs, c \in QueueCalls :
          CallAuthorize(r, c.authorization, c.operation, c.path, c.command, c.skip_rate_limit)
    \/ \E r \in Reqs : AuthParse(r)
    \/ \E r \in Reqs : ValidateLookup(r)
    \/ \E r \in Reqs : ValidateCheck(r)
    \/ \E r \in Reqs : ValidateTouch(r)
    \/ \E r \in Reqs : AuthCheckPermission(r)
    \/ \E r \in Reqs : AuthRequestApproval(r)
    \/ \E r \in Reqs : AuthPoll(r)
    \/ \E r \in Reqs : AuthTimeout(r)
    \/ \E r \in Reqs : AuthRate(r)
    \/ \E r \in Reqs : AuthLimitToken(r)
    \/ \E a \in Admins, op \in {"approve", "deny"}, id \in IssuedIds : Decide(a, op, id)
    \/ Tick

SpecQueue == Init /\ [][QueueNext]_vars

\* administrator a returns from approve or deny in this step
Decides(a) == adm[a].pc = "idle" /\ adm'[a].pc = "done" /\ adm'[a].op \in {"approve", "deny"}
\* the wait of call r has returned
WaitReturned(r) == 4 \in req[r].passed \/ req[r].failed_at = 4

\* C11: once the status of an entry has left pending, an approve or deny on its
\* id returns false and leaves the stored status as it was
C11_DecidedOnce ==
    [][\A a \in Admins :
          (Decides(a) /\ adm'[a].token_id \in DOMAIN pending
              /\ pending[adm'[a].token_id].status # "pending") =>
              /\ adm'[a].status = "false"
              /\ pending'[adm'[a].token_id].status = pending[adm'[a].token_id].status]_vars

\* check_approval returns True in this step
WaitReturnsTrue(r) == 4 \notin req[r].passed /\ 4 \in req'[r].passed

\* C12: check_approval returns True only on reading the status approved, and
\* once it has returned, whatever the outcome, its request id is not in the
\* queue and an approve or deny on it returns false
C12_WaitRemovesEntry ==
    /\ [](\A r \in Reqs : WaitReturned(r) => req[r].request_id \notin DOMAIN pending)
    /\ [][/\ \A r \in Reqs : WaitReturnsTrue(r) =>
                /\ req[r].request_id \in DOMAIN pending
                /\ pending[req[r].request_id].status = "approved"
          /\ \A a \in Admins : \A r \in Reqs :
                (Decides(a) /\ WaitReturned(r) /\ adm'[a].token_id = req[r].request_id) =>
                    adm'[a].status = "false"]_vars

\* a wait timed out, and afterwards an administrator's decision on its request
\* id returned false; another wait returned True
C12_Witness ==
    \E r, q \in Reqs : \E a \in Admins :
        /\ req[r].failed_at = 4 /\ req[r].request_id \notin DOMAIN pending
        /\ adm[a].pc = "done" /\ adm[a].token_id = req[r].request_id /\ adm[a].status = "false"
        /\ 4 \in req[q].passed

\* C13: authorize returns success for an operation in an approval set only if
\* approve was called on the request id of that call; and if deny was called
\* on a pending request, or the wait timed out, authorize fails Forbidden with
\* the approval-denied reason and no rate-limit usage recorded
C13_ApprovalDecides ==
    \A r \in Reqs :
        (Finished(r) /\ 3 \in req[r].passed /\ ApprovalRequired(r)) =>
            /\ req[r].pc = "done" =>
                  \E a \in Admins : /\ adm[a].pc = "done" /\ adm[a].op = "approve"
                                    /\ adm[a].token_id = req[r].request_id
                                    /\ adm[a].status = "true"
            /\ (\E a \in Admins : /\ adm[a].pc = "done" /\ adm[a].op = "deny"
                                  /\ adm[a].token_id = req[r].request_id
                                  /\ adm[a].status = "true") =>
                  /\ req[r].pc = "failed" /\ req[r].status = 403 /\ req[r].failed_at = 4
                  /\ req[r].detail = "Approval denied or timed out"
                  /\ req[r].recorded = 0

----------------------------------------------------------------------------
(* The sliding window: one caller making authorize calls one after another
   with a token limited to LimitN requests per minute, over more than a minute *)

LimitN == 2
MaxLongTicks == 4

TokenIdL == <<"t", "l">>
ConfigTokenL ==
    [ConfigToken(TokenIdL, SecretA, {"read"}, None, None, None, None)
        EXCEPT !.rate_limits = Some([w \in {"requests_per_minute"} |-> LimitN])]
LimiterConfig == ConfigFile(<<ConfigTokenL>>, <<>>, {})

InitLimiter ==
    /\ StoreLoaded(LimiterConfig)
    /\ per_minute = EmptyDict /\ per_hour = EmptyDict /\ per_day = EmptyDict
    /\ admitted = EmptyDict
    /\ pending = EmptyDict
    /\ now = 0
    /\ fresh = 0
    /\ req = [r \in Reqs |-> IdleReq]
    /\ adm = [a \in Admins |-> IdleAdm]

\* require_auth_and_permission has returned or raised; the thread is free for
\* its next call
Return(r) ==
    /\ Finished(r)
    /\ req' = [req EXCEPT ![r] = IdleReq]
    /\ UNCHANGED <<storeVars, lock, limiterVars, pending, now, fresh, phase, adm>>

\* time passes, for longer than a minute
LongTick ==
    /\ now < MaxLongTicks * TickSeconds
    /\ now' = now + TickSeconds
    /\ UNCHANGED <<storeVars, lock, limiterVars, pending, fresh, phase, req, adm>>

LimiterNext ==
    \/ \E r \in {1} :
          CallAuthorize(r, Some(BEARER \o SecretA), FS_READ, Some(PathTF), None, FALSE)
    \/ \E r \in Reqs : AuthParse(r)
    \/ \E r \in Reqs : ValidateLookup(r)
    \/ \E r \in Reqs : ValidateCheck(r)
    \/ \E r \in Reqs : ValidateTouch(r)
    \/ \E r \in Reqs : AuthCheckPermission(r)
    \/ \E r \in Reqs : AuthRequestApproval(r)
    \/ \E r \in Reqs : AuthRate(r)
    \/ \E r \in Reqs : AuthLimitToken(r)
    \/ \E r \in Reqs : Return(r)
    \/ LongTick

SpecLimiter == InitLimiter /\ [][LimiterNext]_vars

\* the per-minute history of the key of call r
MinuteHistory(r) ==
    IF Fingerprint(req[r].token) \in DOMAIN per_minute
    THEN per_minute[Fingerprint(req[r].token)] ELSE <<>>
MinuteLimit(r) == TokenInfoOf(r).rate_limits["requests_per_minute"]
\* check_and_record of call r returns or raises in this step
LimitChecked(r) == req[r].pc = "limit_token" /\ req'[r].pc # "limit_token"

\* C14: with a per-minute limit N on one key and calls made one after another,
\* a call succeeds while fewer than N calls are counted; a call made within 60
\* seconds of the first of N counted calls fails RateLimited naming the window
\* minute and the limit N; and a call made more than 60 seconds after the
\* oldest counted call succeeds. No more than N calls are ever counted
C14_SlidingWindow ==
    /\ [](\A r \in Reqs : 2 \in req[r].passed => Len(MinuteHistory(r)) <= MinuteLimit(r))
    /\ [][\A r \in Reqs : LimitChecked(r) =>
            LET h == MinuteHistory(r)
                n == MinuteLimit(r)
                t == req[r].t
                succeeds == req'[r].pc = "done" /\ req'[r].status = 200
                limited == /\ req'[r].pc = "failed" /\ req'[r].status = 429
                           /\ req'[r].detail = "minute" /\ req'[r].limit = n
            IN /\ Len(h) < n => succeeds
               /\ (Len(h) >= n /\ t - h[Len(h) - n + 1] <= MinuteSeconds) => limited
               /\ (Len(h) >= 1 /\ t - h[1] > MinuteSeconds) => succeeds
               /\ succeeds \/ limited]_vars

\* a call succeeded more than a minute after the first one, while an earlier
\* call is still counted: the limit is full again without any reset
C14_Witness ==
    \E r \in Reqs :
        /\ req[r].pc = "done" /\ req[r].recorded = 1 /\ req[r].t > MinuteSeconds
        /\ Len(MinuteHistory(r)) = MinuteLimit(r)
        /\ MinuteHistory(r)[Len(MinuteHistory(r))] = req[r].t
        /\ MinuteHistory(r)[1] < req[r].t

----------------------------------------------------------------------------
(* The failure kinds of validate_token *)

\* the lookup of validate_token runs in this step
LooksUp(r) == req[r].pc = "lookup" /\ req'[r].pc # "lookup"

\* C15: whenever the presented secret is absent from the secret-to-id index,
\* validate fails with the Unauthenticated kind (HTTP 401), not Forbidden
C15_UnknownUnauthenticated ==
    [][\A r \in Reqs :
          (LooksUp(r) /\ req[r].token \notin DOMAIN token_lookup) =>
              (req'[r].pc = "failed" /\ req'[r].status = 401)]_vars

----------------------------------------------------------------------------
(* validate_token on a store with an enabled, a disabled, an expiring and a
   disabled and expired token, while an administrator disables tokens *)

SecretC == <<"c">>
SecretD == <<"d">>
TokenIdC == <<"t", "c">>
TokenIdD == <<"t", "d">>

\* token C expires at the first tick of the clock; token D is disabled and its
\* expiry is the start of the run
ConfigTokenC ==
    [ConfigToken(TokenIdC, SecretC, {"read"}, None, None, None, None)
        EXCEPT !.expires = AtTime(TickSeconds)]
ConfigTokenD ==
    [ConfigToken(TokenIdD, SecretD, {"read"}, None, None, None, None)
        EXCEPT !.expires = AtTime(0), !.enabled = Some(FALSE)]
ValidateConfig ==
    ConfigFile(<<ConfigTokenA, ConfigTokenB, ConfigTokenC, ConfigTokenD>>, <<>>, {})

InitValidate ==
    /\ StoreLoaded(ValidateConfig)
    /\ per_minute = EmptyDict /\ per_hour = EmptyDict /\ per_day = EmptyDict
    /\ admitted = EmptyDict
    /\ pending = EmptyDict
    /\ now = 0
    /\ fresh = 0
    /\ req = [r \in Reqs |-> IdleReq]
    /\ adm = [a \in Admins |-> IdleAdm]

ValidateNext ==
    \/ \E r \in Reqs, s \in {SecretA, SecretB, SecretC, SecretD, <<"z">>, <<>>} :
          CallValidate(r, s)
    \/ \E r \in Reqs : ValidateLookup(r)
    \/ \E r \in Reqs : ValidateCheck(r)
    \/ \E r \in Reqs : ValidateTouch(r)
    \/ \E a \in {1}, id \in {TokenIdA, TokenIdC} : CallOnToken(a, "disable", id)
    \/ \E a \in Admins : Disable(a)
    \/ Tick

SpecValidate == InitValidate /\ [][ValidateNext]_vars

\* the enabled and expiry checks of validate_token run in this step
Checks(r) == req[r].pc = "check" /\ req'[r].pc # "check"

\* C16: validate fails Forbidden for a known secret whose token is disabled,
\* whether or not it is also expired, fails Expired for an enabled token whose
\* expiry is in the past, and passes both checks otherwise
C16_DisabledThenExpired ==
    [][\A r \in Reqs : Checks(r) =>
          LET token_info == TokenOf(tokens, req[r].token_id)
          IN IF ~token_info.enabled
             THEN /\ req'[r].pc = "failed" /\ req'[r].status = 403
                  /\ req'[r].detail = "Token is disabled"
             ELSE IF token_info.expires.present /\ token_info.expires.v < now
             THEN /\ req'[r].pc = "failed" /\ req'[r].status = 401
                  /\ req'[r].detail = "Token expired"
             ELSE req'[r].pc = "touch"]_vars

\* a token that is both disabled and expired was refused as disabled
C16_Witness ==
    \E r \in Reqs :
        /\ req[r].pc = "failed" /\ req[r].status = 403 /\ req[r].detail = "Token is disabled"
        /\ ~TokenInfoOf(r).enabled
        /\ TokenInfoOf(r).expires.present /\ TokenInfoOf(r).expires.v < now

\* C17: a step of a validate call changes the token set and the persisted
\* record exactly when the call returns success: then last_used of the
\* validated token, and of no other, is set to the current time and the
\* persisted record holds the new token set; every other step of the call, its
\* failing as unknown, disabled or expired included, leaves both as they were
C17_TouchOnSuccessOnly ==
    [][\A r \in Reqs : (req'[r] # req[r] /\ req[r].kind = "validate") =>
          IF req'[r].pc = "done"
          THEN /\ tokens' = [tokens EXCEPT ![IndexOfToken(tokens, req[r].token_id)].last_used
                                               = AtTime(now)]
               /\ Loaded(file')[1] = tokens'
          ELSE tokens' = tokens /\ file' = file]_vars

\* one validation succeeded and set last_used of its token after the start of
\* the run, the other tokens were never used, and another validation failed
C17_Witness ==
    \E r, q \in Reqs :
        /\ req[r].kind = "validate" /\ req[r].pc = "done"
        /\ TokenInfoOf(r).last_used.present /\ TokenInfoOf(r).last_used.v > 0
        /\ \A i \in 1..Len(tokens) :
              tokens[i].token_id # req[r].token_id => ~tokens[i].last_used.present
        /\ req[q].kind = "validate" /\ req[q].pc = "failed"
        /\ Loaded(file)[1] = tokens

----------------------------------------------------------------------------
(* Disablement *)

\* the secret is, or through a rotation has been, the secret of the token id
SecretOf(s, id) ==
    \/ \E i \in 1..Len(tokens) : tokens[i].token_id = id /\ tokens[i].token = s
    \/ \E b \in Admins : /\ adm[b].op = "rotate" /\ adm[b].token_id = id
                         /\ s \in {adm[b].old_token, adm[b].new_token} \ {NoStr}

\* C18: once disable(id) has completed the token's enabled flag stays false,
\* and every validation that began afterwards with a secret of that token, one
\* obtained by rotating it included, fails Forbidden
C18_DisableOneWay ==
    /\ \A a \in DisablesDone : ~TokenOf(tokens, adm[a].token_id).enabled
    /\ \A r \in Reqs : \A a \in req[r].after_disable :
          (Finished(r) /\ SecretOf(req[r].token, adm[a].token_id)) =>
              (req[r].pc = "failed" /\ req[r].status = 403)

----------------------------------------------------------------------------
(* An authorize call in flight while administrators rotate and disable its
   token and decide on its approval request *)

\* token A reading an allowed and a denied path, and writing (with approval);
\* a second caller reads with the same token and so fills its window
FlightCalls ==
    {Call(Some(BEARER \o SecretA), FS_READ, Some(PathTF), FALSE),
     Call(Some(BEARER \o SecretA), FS_READ, Some(PathEP), FALSE),
     Call(Some(BEARER \o SecretA), FS_WRITE, Some(PathTF), FALSE)}

FlightNext ==
    \/ \E r \in {1}, c \in FlightCalls :
          CallAuthorize(r, c.authorization, c.operation, c.path, c.command, c.skip_rate_limit)
    \/ CallAuthorize(2, Some(BEARER \o SecretA), FS_READ, Some(PathTF), None, FALSE)
    \/ \E r \in Reqs : AuthParse(r)
    \/ \E r \in Reqs : ValidateLookup(r)
    \/ \E r \in Reqs : ValidateCheck(r)
    \/ \E r \in Reqs : ValidateTouch(r)
    \/ \E r \in Reqs : AuthCheckPermission(r)
    \/ \E r \in Reqs : AuthRequestApproval(r)
    \/ \E r \in Reqs : AuthPoll(r)
    \/ \E r \in Reqs : AuthTimeout(r)
    \/ \E r \in Reqs : AuthRate(r)
    \/ \E r \in Reqs : AuthLimitToken(r)
    \/ \E r \in Reqs : AuthRateOp(r)
    \/ \E r \in Reqs : AuthLimitOp(r)
    \/ \E a \in Admins, op \in {"rotate", "disable"} : CallOnToken(a, op, TokenIdA)
    \/ \E a \in Admins : RotateCheck(a)
    \/ \E a \in Admins : RotateAssign(a)
    \/ \E a \in Admins : RotateDel(a)
    \/ \E a \in Admins : RotateSet(a)
    \/ \E a \in Admins : RotateSave(a)
    \/ \E a \in Admins : Disable(a)
    \/ \E a \in Admins, op \in {"approve", "deny"}, id \in IssuedIds : Decide(a, op, id)
    \/ Tick

SpecFlight == Init /\ [][FlightNext]_vars

\* what can make a call fail after its validation: a missing scope or a path
\* under a denylist at step 3, a denial or the timeout at step 4, a full window
\* at step 5
FailureExplained(r) ==
    \/ /\ req[r].failed_at = 3 /\ req[r].status = 403
       /\ \/ LacksScope(r) /\ req[r].detail \in Scopes
          \/ /\ req[r].detail = "Path not allowed"
             /\ \/ ResolvedPrefix(global_denylist, req[r].path.v)
                \/ ResolvedPrefix(TokenInfoOf(r).path_denylist.v, req[r].path.v)
    \/ /\ req[r].failed_at = 4 /\ req[r].status = 403
       /\ req[r].detail = "Approval denied or timed out"
       /\ \/ now - req[r].start >= ApprovalTimeout
          \/ \E a \in Admins : /\ adm[a].op = "deny" /\ adm[a].status = "true"
                               /\ adm[a].token_id = req[r].request_id
    \/ /\ req[r].failed_at = 5 /\ req[r].status = 429
       /\ Len(MinuteHistory(r)) >= req[r].limit

\* C19: a call that has passed validation is not failed by a rotation or a
\* disablement of its token: it ends in success unless a scope or path rule,
\* the approval decision or a rate limit fails it
C19_NotInvalidatedMidway ==
    \A r \in Reqs :
        (Finished(r) /\ req[r].kind = "authorize" /\ 2 \in req[r].passed) =>
            \/ req[r].pc = "done" /\ req[r].status = 200
            \/ req[r].pc = "failed" /\ FailureExplained(r)

\* a call was approved and returned success although its token had been
\* disabled after the call's validation
C19_Witness ==
    \E r \in Reqs :
        /\ req[r].pc = "done" /\ req[r].status = 200 /\ 4 \in req[r].passed
        /\ ~TokenInfoOf(r).enabled
        /\ \E a \in DisablesDone : adm[a].token_id = req[r].token_id

----------------------------------------------------------------------------
(* The persisted record and the in-memory token set; save_tokens when open()
   or json.dump raises OSError *)

\* validate_token when save_tokens raises: last_used is set, the record is
\* not rewritten, the lock is released and the OSError leaves validate_token
ValidateTouchWriteFails(r) ==
    /\ req[r].pc = "touch"
    /\ lock = NoOwner
    /\ tokens' = [tokens EXCEPT ![IndexOfToken(tokens, req[r].token_id)].last_used = AtTime(now)]
    /\ file' = file
    /\ req' = [req EXCEPT ![r] = Raise(r, 500, "OSError", 2)]
    /\ UNCHANGED <<token_lookup, global_denylist, require_approval_operations,
                   lock, limiterVars, pending, now, fresh, phase, adm>>

\* rotate_token when save_tokens raises: tokens and token_lookup hold the new
\* secret, the record holds the old one
RotateSaveWriteFails(a) ==
    /\ adm[a].pc = "rotate_save"
    /\ file' = file
    /\ lock' = NoOwner
    /\ adm' = [adm EXCEPT ![a] = [adm[a] EXCEPT !.pc = "failed", !.status = "OSError"]]
    /\ UNCHANGED <<tokens, token_lookup, global_denylist, require_approval_operations,
                   limiterVars, pending, now, fresh, phase, req>>

\* disable_token with the OSError of save_tokens caught and dropped
DisableWriteSwallowed(a) ==
    /\ adm[a].pc = "disable"
    /\ HasToken(tokens, adm[a].token_id)
    /\ lock = NoOwner
    /\ tokens' = [tokens EXCEPT ![IndexOfToken(tokens, adm[a].token_id)].enabled = FALSE]
    /\ file' = file
    /\ adm' = [adm EXCEPT ![a] = [adm[a] EXCEPT !.pc = "done", !.status = "ok"]]
    /\ UNCHANGED <<token_lookup, global_denylist, require_approval_operations, lock,
                   limiterVars, pending, now, fresh, phase, req>>

\* disable_token when save_tokens raises: enabled is False in memory only
DisableWriteFails(a) ==
    /\ adm[a].pc = "disable"
    /\ HasToken(tokens, adm[a].token_id)
    /\ lock = NoOwner
    /\ tokens' = [tokens EXCEPT ![IndexOfToken(tokens, adm[a].token_id)].enabled = FALSE]
    /\ file' = file
    /\ adm' = [adm EXCEPT ![a] = [adm[a] EXCEPT !.pc = "failed", !.status = "OSError"]]
    /\ UNCHANGED <<token_lookup, global_denylist, require_approval_operations, lock,
                   limiterVars, pending, now, fresh, phase, req>>

\* create_token when save_tokens raises: the token is in tokens and
\* token_lookup, and not in the record
CreateWriteFails(a, scopes) ==
    /\ adm[a].pc = "create"
    /\ lock = NoOwner
    /\ fresh + 2 <= MaxFresh
    /\ LET info == NewTokenInfo(TokenId(fresh + 1), "created", Hex(fresh + 2), scopes)
       IN /\ tokens' = PutToken(tokens, info)
          /\ token_lookup' = DictSet(token_lookup, info.token, info.token_id)
          /\ file' = file
          /\ adm' = [adm EXCEPT ![a] = [adm[a] EXCEPT !.pc = "failed", !.status = "OSError",
                                          !.token_id = info.token_id]]
    /\ fresh' = fresh + 2
    /\ UNCHANGED <<global_denylist, require_approval_operations, lock,
                   limiterVars, pending, now, phase, req>>

\* create, rotate, disable and validate on the store loaded from Config, with
\* writes that succeed
PersistOps ==
    \/ \E r \in {1}, s \in {SecretA, SecretB} \cup {Hex(n) : n \in 1..fresh} : CallValidate(r, s)
    \/ \E r \in Reqs : ValidateLookup(r)
    \/ \E r \in Reqs : ValidateCheck(r)
    \/ \E r \in Reqs : ValidateTouch(r)
    \/ \E a \in Admins, op \in {"rotate", "disable"} : CallOnToken(a, op, TokenIdA)
    \/ \E a \in Admins : CallAdmin(a, "create")
    \/ \E a \in Admins : RotateCheck(a)
    \/ \E a \in Admins : RotateAssign(a)
    \/ \E a \in Admins : RotateDel(a)
    \/ \E a \in Admins : RotateSet(a)
    \/ \E a \in Admins : RotateSave(a)
    \/ \E a \in Admins : Disable(a)
    \/ \E a \in Admins : Create(a, {"read"}, 0)
    \/ Tick

\* the same operations, each of whose writes may fail
PersistNext ==
    \/ PersistOps
    \/ \E r \in Reqs : ValidateTouchWriteFails(r)
    \/ \E a \in Admins : RotateSaveWriteFails(a)
    \/ \E a \in Admins : DisableWriteFails(a)
    \/ \E a \in Admins : CreateWriteFails(a, {"read"})

SpecPersistOk == Init /\ [][PersistOps]_vars

SpecPersist == Init /\ [][PersistNext]_vars

\* what a TokenManager constructed on the record now would hold
PersistedTokens == Loaded(file)[1]

\* C20: whenever no store operation holds the lock, the persisted record
\* equals the in-memory token set, also after an operation whose write failed
C20_PersistedEqualsMemory ==
    lock = NoOwner => PersistedTokens = tokens

----------------------------------------------------------------------------
(* Failed writes reach the caller *)

\* administrator a's create, rotate or disable returns normally in this step
ReportsSuccess(a) ==
    /\ adm[a].op \in {"create", "rotate", "disable"}
    /\ adm[a].pc # "done"
    /\ adm'[a].pc = "done"

\* C21: create, rotate and disable report success only in a step that wrote
\* the record of the token set they leave; when the write fails the call ends
\* in the OSError
C21_WriteFailureReachesCaller ==
    [][\A a \in Admins :
          ReportsSuccess(a) =>
              /\ adm'[a].status = "ok"
              /\ file' = Saved(tokens', global_denylist', require_approval_operations')]_vars

\* a disable whose write failed: the caller holds the OSError and the record
\* still has the token enabled
C21_Witness ==
    \E a \in Admins :
        /\ adm[a].op = "disable" /\ adm[a].pc = "failed" /\ adm[a].status = "OSError"
        /\ ~TokenOf(tokens, adm[a].token_id).enabled
        /\ TokenOf(PersistedTokens, adm[a].token_id).enabled

----------------------------------------------------------------------------
(* _require_auth of the patched server: require_auth_and_permission inside
   try/except Exception, then the legacy AUTH_TOKENS check *)

\* AUTH_TOKENS of the server: the legacy secrets the store was seeded from
AUTH_TOKENS == {SecretA, SecretB}

\* if SECURITY_ENHANCED: ... return rate_limiter.get_token_fingerprint(...)
RequireAuthEnhanced(r) ==
    /\ req[r].kind = "authorize"
    /\ req[r].pc = "done"
    /\ req[r].wrapper = "none"
    /\ req' = [req EXCEPT ![r].wrapper = "admitted"]
    /\ UNCHANGED <<storeVars, lock, limiterVars, pending, now, fresh, phase, adm>>

\* except Exception: pass, then the legacy authentication; within_legacy_limit
\* is the outcome of the server's own _enforce_rate_limit(token)
RequireAuthLegacy(r, within_legacy_limit) ==
    /\ req[r].kind = "authorize"
    /\ req[r].pc = "failed"
    /\ req[r].wrapper = "none"
    /\ req' = [req EXCEPT ![r].wrapper =
          IF AUTH_TOKENS = {} THEN "admitted"
          ELSE IF ~Truthy(req[r].authorization) \/ ~StartsWith(req[r].authorization.v, BEARER)
          THEN "refused"
          ELSE IF AfterFirst(req[r].authorization.v, " ") \notin AUTH_TOKENS
          THEN "refused"
          ELSE IF within_legacy_limit THEN "admitted" ELSE "refused"]
    /\ UNCHANGED <<storeVars, lock, limiterVars, pending, now, fresh, phase, adm>>

\* the endpoints' calls: no header, an unknown secret, the disabled token B,
\* and token A reading an allowed and a denied path
GatewayCalls ==
    {Call(None, FS_READ, Some(PathTF), FALSE),
     Call(Some(BEARER \o <<"z">>), FS_READ, Some(PathTF), FALSE),
     Call(Some(BEARER \o SecretB), FS_READ, Some(PathTF), FALSE),
     Call(Some(BEARER \o SecretA), FS_READ, Some(PathTF), FALSE),
     Call(Some(BEARER \o SecretA), FS_READ, Some(PathEP), FALSE)}

GatewayNext ==
    \/ \E r \in Reqs, c \in GatewayCalls :
          CallAuthorize(r, c.authorization, c.operation, c.path, c.command, c.skip_rate_limit)
    \/ \E r \in Reqs : AuthParse(r)
    \/ \E r \in Reqs : ValidateLookup(r)
    \/ \E r \in Reqs : ValidateCheck(r)
    \/ \E r \in Reqs : ValidateTouch(r)
    \/ \E r \in Reqs : AuthCheckPermission(r)
    \/ \E r \in Reqs : AuthRequestApproval(r)
    \/ \E r \in Reqs : AuthRate(r)
    \/ \E r \in Reqs : AuthLimitToken(r)
    \/ \E r \in Reqs : AuthRateOp(r)
    \/ \E r \in Reqs : AuthLimitOp(r)
    \/ \E r \in Reqs : RequireAuthEnhanced(r)
    \/ \E r \in Reqs, l \in BOOLEAN : RequireAuthLegacy(r, l)
    \/ Tick

SpecGateway == Init /\ [][GatewayNext]_vars

\* C22: a request whose authorize call failed is refused by _require_auth: the
\* failure is not caught and the request admitted by another check
C22_FailureIsTerminal ==
    \A r \in Reqs :
        (req[r].pc = "failed" /\ req[r].wrapper # "none") => req[r].wrapper = "refused"

----------------------------------------------------------------------------
(* migrate_legacy_tokens *)

\* C23: after migrate_legacy_tokens(secrets) every secret of the input
\* validates as a token that holds the admin scope
C23_MigrateLegacyWraps ==
    [][\A a \in Admins, l \in {<<SecretA>>, <<SecretB, SecretA>>} :
          MigrateLegacy(a, l) =>
              \A i \in 1..Len(l) :
                  /\ l[i] \in DOMAIN token_lookup'
                  /\ HasToken(tokens', token_lookup'[l[i]])
                  /\ "admin" \in TokenOf(tokens', token_lookup'[l[i]]).scopes]_vars

----------------------------------------------------------------------------
(* A token whose record has no rate_limits key *)

TokenIdU == <<"t", "u">>
\* a record with token_id, name, token, scopes and created only
ConfigTokenU == ConfigToken(TokenIdU, SecretA, {"read"}, None, None, None, None)
UnlimitedConfig == ConfigFile(<<ConfigTokenU>>, <<>>, {})

InitUnlimited ==
    /\ StoreLoaded(UnlimitedConfig)
    /\ per_minute = EmptyDict /\ per_hour = EmptyDict /\ per_day = EmptyDict
    /\ admitted = EmptyDict
    /\ pending = EmptyDict
    /\ now = 0
    /\ fresh = 0
    /\ req = [r \in Reqs |-> IdleReq]
    /\ adm = [a \in Admins |-> IdleAdm]

\* one caller making request after request within the same minute
UnlimitedNext ==
    \/ \E r \in {1} :
          CallAuthorize(r, Some(BEARER \o SecretA), FS_READ, Some(PathTF), None, FALSE)
    \/ \E r \in Reqs : AuthParse(r)
    \/ \E r \in Reqs : ValidateLookup(r)
    \/ \E r \in Reqs : ValidateCheck(r)
    \/ \E r \in Reqs : ValidateTouch(r)
    \/ \E r \in Reqs : AuthCheckPermission(r)
    \/ \E r \in Reqs : AuthRequestApproval(r)
    \/ \E r \in Reqs : AuthRate(r)
    \/ \E r \in Reqs : AuthLimitToken(r)
    \/ \E r \in Reqs : Return(r)

SpecUnlimited == InitUnlimited /\ [][UnlimitedNext]_vars

\* C24: a token whose record has no rate-limit map is never failed by the
\* rate limiter
C24_NoMapNoLimit ==
    \A r \in Reqs : req[r].pc = "failed" => req[r].status # 429

----------------------------------------------------------------------------
(* register_approval_endpoints: every endpoint depends on require_admin_token *)

\* a request to an administrative endpoint arrives: endpoint is one of list,
\* approve, deny, rotate, disable, and target the id in the URL
CallEndpoint(r, authorization, endpoint, target) ==
    /\ phase = "up"
    /\ req[r].pc = "idle"
    /\ adm[r].pc = "idle"
    /\ req' = [req EXCEPT ![r] = [IdleReq EXCEPT !.pc = "admin_parse", !.kind = "endpoint",
                                    !.authorization = authorization,
                                    !.endpoint = endpoint, !.target = target,
                                    !.after = RotationsDone,
                                    !.after_disable = DisablesDone]]
    /\ UNCHANGED <<storeVars, lock, limiterVars, pending, now, fresh, phase, adm>>

\* require_admin_token: Header(...) answers 422 without a header; then the
\* Bearer test and token = authorization.split(" ", 1)[1]
RequireAdminParse(r) ==
    /\ req[r].pc = "admin_parse"
    /\ req' = [req EXCEPT ![r] =
          IF ~req[r].authorization.present
          THEN Raise(r, 422, "Field required", 1)
          ELSE IF ~Truthy(req[r].authorization) \/ ~StartsWith(req[r].authorization.v, BEARER)
          THEN Raise(r, 401, "Missing/invalid Authorization header", 1)
          ELSE [req[r] EXCEPT !.pc = "lookup", !.token = AfterFirst(req[r].authorization.v, " "),
                              !.passed = @ \cup {1}]]
    /\ UNCHANGED <<storeVars, lock, limiterVars, pending, now, fresh, phase, adm>>

\* require_admin_token handing every validated token to the endpoint
RequireAdminScopeAny(r) ==
    /\ req[r].pc = "admin_scope"
    /\ req' = [req EXCEPT ![r].pc = "endpoint"]
    /\ UNCHANGED <<storeVars, lock, limiterVars, pending, now, fresh, phase, adm>>

\* if "admin" not in token_info.scopes: raise HTTPException(403)
RequireAdminScope(r) ==
    /\ req[r].pc = "admin_scope"
    /\ req' = [req EXCEPT ![r] =
          IF "admin" \notin TokenOf(tokens, req[r].token_id).scopes
          THEN Raise(r, 403, "Admin scope required", 3)
          ELSE [req[r] EXCEPT !.pc = "endpoint"]]
    /\ UNCHANGED <<storeVars, lock, limiterVars, pending, now, fresh, phase, adm>>

\* the dependency has returned token_info and the body of the endpoint runs
DependencyReturned(r, endpoints) ==
    /\ req[r].kind = "endpoint"
    /\ req[r].pc = "endpoint"
    /\ req[r].endpoint \in endpoints

\* approve_operation / deny_operation: approval_queue.approve(request_id) or deny
EndpointDecide(r) ==
    /\ DependencyReturned(r, {"approve", "deny"})
    /\ Decide(r, req[r].endpoint, req[r].target)

\* rotate_token / disable_token: the call of the TokenManager begins
EndpointOnToken(r) ==
    /\ DependencyReturned(r, {"rotate", "disable"})
    /\ CallOnToken(r, req[r].endpoint, req[r].target)

\* list_pending_approvals / list_tokens: reads only
EndpointList(r) ==
    /\ DependencyReturned(r, {"list"})
    /\ adm[r].pc = "idle"
    /\ adm' = [adm EXCEPT ![r] = [IdleAdm EXCEPT !.pc = "done", !.op = "list", !.status = "ok"]]
    /\ UNCHANGED <<storeVars, lock, limiterVars, pending, now, fresh, phase, req>>

\* token A without the admin scope, and three admin tokens: B, C that expires
\* after TickSeconds, and D that is disabled
ConfigAdminB == ConfigToken(TokenIdB, SecretB, {"admin"}, None, None, None, None)
ConfigAdminC ==
    [ConfigToken(TokenIdC, SecretC, {"admin"}, None, None, None, None)
        EXCEPT !.expires = AtTime(TickSeconds)]
ConfigAdminD ==
    [ConfigToken(TokenIdD, SecretD, {"admin"}, None, None, None, None)
        EXCEPT !.enabled = Some(FALSE)]
EndpointConfig == ConfigFile(<<ConfigTokenA, ConfigAdminB, ConfigAdminC, ConfigAdminD>>, <<>>, {})

InitEndpoint ==
    /\ StoreLoaded(EndpointConfig)
    /\ per_minute = EmptyDict /\ per_hour = EmptyDict /\ per_day = EmptyDict
    /\ admitted = EmptyDict
    /\ pending = EmptyDict
    /\ now = 0
    /\ fresh = 0
    /\ req = [r \in Reqs |-> IdleReq]
    /\ adm = [a \in Admins |-> IdleAdm]

\* the headers of the callers of the endpoints
EndpointHeaders ==
    {None, Some(SecretB)}
    \cup {Some(BEARER \o t) : t \in {SecretA, SecretB, SecretC, SecretD, <<"z">>}}

\* the endpoints with the ids they may name: the request ids handed out and
\* one that never was, token A and a token id that does not exist
EndpointTargets ==
    ({"approve", "deny"} \X (IssuedIds \cup {Hex(0)}))
    \cup ({"rotate", "disable"} \X {TokenIdA, TokenId(0)})
    \cup {<<"list", NoStr>>}

\* thread 1 also asks for a write with token A, which waits for approval
EndpointNext ==
    \/ CallAuthorize(1, Some(BEARER \o SecretA), FS_WRITE, Some(PathTF), None, TRUE)
    \/ \E r \in Reqs : AuthParse(r)
    \/ \E r \in Reqs : ValidateLookup(r)
    \/ \E r \in Reqs : ValidateCheck(r)
    \/ \E r \in Reqs : ValidateTouch(r)
    \/ \E r \in Reqs : AuthCheckPermission(r)
    \/ \E r \in Reqs : AuthRequestApproval(r)
    \/ \E r \in Reqs : AuthPoll(r)
    \/ \E r \in Reqs : AuthTimeout(r)
    \/ \E r \in Reqs : AuthRate(r)
    \/ \E r \in Reqs, h \in EndpointHeaders, e \in EndpointTargets :
          CallEndpoint(r, h, e[1], e[2])
    \/ \E r \in Reqs : RequireAdminParse(r)
    \/ \E r \in Reqs : RequireAdminScope(r)
    \/ \E r \in Reqs : EndpointDecide(r)
    \/ \E r \in Reqs : EndpointOnToken(r)
    \/ \E r \in Reqs : EndpointList(r)
    \/ \E a \in Admins : RotateCheck(a)
    \/ \E a \in Admins : RotateAssign(a)
    \/ \E a \in Admins : RotateDel(a)
    \/ \E a \in Admins : RotateSet(a)
    \/ \E a \in Admins : RotateSave(a)
    \/ \E a \in Admins : Disable(a)
    \/ Tick

SpecEndpoint == InitEndpoint /\ [][EndpointNext]_vars

\* an approval status, a token secret or an enabled flag changes in this step
AdminEffect ==
    \/ \E id \in DOMAIN pending \cap DOMAIN pending' :
          pending'[id].status # pending[id].status
    \/ \E i \in 1..Len(tokens) :
          \/ tokens'[i].token # tokens[i].token
          \/ tokens'[i].enabled # tokens[i].enabled

\* the secret of the request of thread r validated and its token holds admin:
\* the token has been used, and it is enabled or was disabled by a call that
\* had not returned when the request arrived
AdminVerified(r) ==
    /\ req[r].kind = "endpoint"
    /\ 2 \in req[r].passed
    /\ req[r].pc = "endpoint"
    /\ req[r].token_id # NoStr
    /\ LET t == TokenOf(tokens, req[r].token_id)
       IN /\ "admin" \in t.scopes
          /\ t.last_used.present
          /\ \/ t.enabled
             \/ \E a \in Admins \ req[r].after_disable :
                   adm[a].op = "disable" /\ adm[a].token_id = t.token_id

\* the enabled and expiry tests of validate_token let request r through in this step
PassesCheck(r) == req[r].kind = "endpoint" /\ req[r].pc = "check" /\ req'[r].pc = "touch"

\* C25: an administrative operation runs, and an approval status, a token
\* secret or an enabled flag changes, only on behalf of a request whose bearer
\* secret validated and whose token holds the admin scope
C25_AdminOnly ==
    /\ [](\A a \in Admins : adm[a].pc # "idle" => AdminVerified(a))
    /\ [][\A r \in Reqs : PassesCheck(r) =>
              LET t == TokenOf(tokens, req[r].token_id)
              IN t.enabled /\ ~(t.expires.present /\ now > t.expires.v)]_vars
    /\ [][AdminEffect => \E a \in Admins : adm'[a] # adm[a] /\ AdminVerified(a)]_vars

\* an admin caller approved a waiting request
C25_Witness ==
    \E a \in Admins :
        /\ adm[a].op = "approve" /\ adm[a].status = "true" /\ AdminVerified(a)
        /\ \E r \in Reqs : req[r].request_id = adm[a].token_id /\ 4 \in req[r].passed

----------------------------------------------------------------------------
(* Administrative operations on unknown ids *)

\* rotate_token or disable_token of administrator a takes its first step on a
\* token_id that is not in tokens
StartsOnUnknownToken(a) ==
    /\ adm[a].pc \in {"rotate", "disable"}
    /\ adm'[a] # adm[a]
    /\ ~HasToken(tokens, adm[a].token_id)

\* C26: rotate and disable of an unknown token id fail NotFound, approve and
\* deny of a request id that is not in the queue return false, and the token
\* set, the index, the record and the queue are left as they were
C26_UnknownIdNoEffect ==
    [][\A a \in Admins :
          /\ StartsOnUnknownToken(a) =>
                /\ adm'[a].pc = "failed" /\ adm'[a].status = "NotFound"
                /\ UNCHANGED <<tokens, token_lookup, file, pending>>
          /\ (Decides(a) /\ adm'[a].token_id \notin DOMAIN pending) =>
                /\ adm'[a].status = "false"
                /\ UNCHANGED <<tokens, token_lookup, file, pending>>]_vars

\* a rotate or disable that failed NotFound and an approve or deny that
\* returned false
C26_Witness ==
    \E a, b \in Admins :
        /\ adm[a].op \in {"rotate", "disable"} /\ adm[a].status = "NotFound"
        /\ adm[b].op \in {"approve", "deny"} /\ adm[b].status = "false"

----------------------------------------------------------------------------
(* What rotate_token changes *)

\* a statement of rotate_token(adm[a].token_id) runs in this step
RotateStep(a) == adm[a].op = "rotate" /\ adm'[a] # adm[a]

\* token record t with its secret blanked
WithoutSecret(t) == [t EXCEPT !.token = NoStr]

\* C27: rotate_token(id) changes only the secret of token id and the index
\* entries of that token; every other field of the token, every other token
\* and every other index entry stay as they were
C27_RotateFrame ==
    [][\A a \in Admins : RotateStep(a) =>
          /\ Len(tokens') = Len(tokens)
          /\ \A i \in 1..Len(tokens) :
                /\ WithoutSecret(tokens'[i]) = WithoutSecret(tokens[i])
                /\ tokens[i].token_id # adm[a].token_id => tokens'[i] = tokens[i]
          /\ \A sec \in DOMAIN token_lookup :
                token_lookup[sec] # adm[a].token_id =>
                    sec \in DOMAIN token_lookup' /\ token_lookup'[sec] = token_lookup[sec]
          /\ \A sec \in DOMAIN token_lookup' :
                token_lookup'[sec] # adm[a].token_id =>
                    sec \in DOMAIN token_lookup /\ token_lookup[sec] = token_lookup'[sec]]_vars

----------------------------------------------------------------------------
(* Command rules, observed at step 3 of authorize *)

\* the call carries a non-empty command, its token has no admin scope and
\* holds the scopes of the operation, and no path is given
CommandRulesDecide(r) ==
    /\ PermDecided(r)
    /\ req[r].command.present /\ req[r].command.v # <<>>
    /\ ~req[r].path.present
    /\ "admin" \notin TokenInfoOf(r).scopes
    /\ ~LacksScope(r)

\* the basename of the executable equals a denylist entry, or the command
\* line starts with one
OnCommandDenylist(r) ==
    LET dl == TokenInfoOf(r).command_denylist
    IN /\ dl.present
       /\ \E i \in 1..Len(dl.v) :
             \/ PathName(req[r].command.v[1]) = dl.v[i]
             \/ StartsWith(JoinWith(req[r].command.v, <<" ">>), dl.v[i])

\* a non-empty allowlist exists and no entry equals the basename
OffCommandAllowlist(r) ==
    LET al == TokenInfoOf(r).command_allowlist
    IN /\ al.present /\ al.v # <<>>
       /\ \A i \in 1..Len(al.v) : PathName(req[r].command.v[1]) # al.v[i]

----------------------------------------------------------------------------
(* The limiter under concurrent callers: check_and_record reads time.time()
   before it takes the lock *)

\* two caller threads on the key of token L, call after call
RaceNext ==
    \/ \E r \in Reqs :
          CallAuthorize(r, Some(BEARER \o SecretA), FS_READ, Some(PathTF), None, FALSE)
    \/ \E r \in Reqs : AuthParse(r)
    \/ \E r \in Reqs : ValidateLookup(r)
    \/ \E r \in Reqs : ValidateCheck(r)
    \/ \E r \in Reqs : ValidateTouch(r)
    \/ \E r \in Reqs : AuthCheckPermission(r)
    \/ \E r \in Reqs : AuthRequestApproval(r)
    \/ \E r \in Reqs : AuthRate(r)
    \/ \E r \in Reqs : AuthLimitToken(r)
    \/ \E r \in Reqs : Return(r)
    \/ LongTick

SpecRace == InitLimiter /\ [][RaceNext]_vars

\* how many of the timestamps in seq lie in the interval [from, from + length]
CountWithin(seq, from, length) ==
    Cardinality({i \in 1..Len(seq) : seq[i] >= from /\ seq[i] <= from + length})

\* C29: on every key with per-minute limit N, no more than N admitted calls
\* have timestamps within one interval of 60 seconds
C29_CeilingUnderConcurrency ==
    \A k \in DOMAIN admitted :
        \A i \in 1..Len(admitted[k]) :
            CountWithin(admitted[k], admitted[k][i], MinuteSeconds) <= LimitN

\* how many of the timestamps in seq are not older than oldest
CountSince(seq, oldest) == Cardinality({i \in 1..Len(seq) : seq[i] >= oldest})

\* C30: a call is rejected for the minute window only when at least N calls
\* admitted before it on its key have timestamps no older than 60 seconds
\* before the call's own timestamp: a call older than the window does not count
C30_OnlyTrailingWindowCounts ==
    [][\A r \in Reqs :
          (LimitChecked(r) /\ req'[r].pc = "failed") =>
              LET k == StorageKey(Fingerprint(req[r].token), <<>>)
                  log == IF k \in DOMAIN admitted THEN admitted[k] ELSE <<>>
              IN CountSince(log, req[r].t - MinuteSeconds) >= MinuteLimit(r)]_vars

----------------------------------------------------------------------------
(* The order of the timestamps in a history *)

\* the timestamps of seq do not decrease from the oldest to the newest entry
TimeOrdered(seq) == \A i \in 1..(Len(seq) - 1) : seq[i] <= seq[i + 1]

\* C31: every history of the limiter, for every key and window, is ordered
\* by time
C31_HistoriesTimeOrdered ==
    /\ \A k \in DOMAIN per_minute : TimeOrdered(per_minute[k])
    /\ \A k \in DOMAIN per_hour : TimeOrdered(per_hour[k])
    /\ \A k \in DOMAIN per_day : TimeOrdered(per_day[k])

----------------------------------------------------------------------------
(* Rejected calls: one caller, a token limited per minute and per hour and a
   token with limits of their own for fs_read and fs_ls *)

TokenIdW == <<"t", "w">>
TokenIdO == <<"t", "o">>
ConfigTokenW ==
    [ConfigToken(TokenIdW, SecretA, {"read"}, None, None, None, None)
        EXCEPT !.rate_limits = Some([w \in {"requests_per_minute", "requests_per_hour"} |->
                                        IF w = "requests_per_minute" THEN LimitN
                                        ELSE ConfigRequestsPerMinute])]
ConfigTokenO ==
    [ConfigToken(TokenIdO, SecretB, {"read"}, None, None, None, None)
        EXCEPT !.rate_limits = Some([w \in {"requests_per_minute"} |-> LimitN]),
               !.operation_limits =
                   Some([o \in {FS_READ, FS_LS} |->
                           [w \in {"requests_per_minute"} |-> ConfigRequestsPerMinute]])]
WindowsConfig == ConfigFile(<<ConfigTokenW, ConfigTokenO>>, <<>>, {})

InitWindows ==
    /\ StoreLoaded(WindowsConfig)
    /\ per_minute = EmptyDict /\ per_hour = EmptyDict /\ per_day = EmptyDict
    /\ admitted = EmptyDict
    /\ pending = EmptyDict
    /\ now = 0
    /\ fresh = 0
    /\ req = [r \in Reqs |-> IdleReq]
    /\ adm = [a \in Admins |-> IdleAdm]

\* time passes, each time by more than the minute window
WindowTick ==
    /\ now < MaxTicks * (MinuteSeconds + 1)
    /\ now' = now + MinuteSeconds + 1
    /\ UNCHANGED <<storeVars, lock, limiterVars, pending, fresh, phase, req, adm>>

WindowsNext ==
    \/ \E r \in {1}, call \in {<<SecretA, FS_READ>>, <<SecretB, FS_READ>>, <<SecretB, FS_LS>>} :
          CallAuthorize(r, Some(BEARER \o call[1]), call[2], Some(PathTF), None, FALSE)
    \/ \E r \in Reqs : AuthParse(r)
    \/ \E r \in Reqs : ValidateLookup(r)
    \/ \E r \in Reqs : ValidateCheck(r)
    \/ \E r \in Reqs : ValidateTouch(r)
    \/ \E r \in Reqs : AuthCheckPermission(r)
    \/ \E r \in Reqs : AuthRequestApproval(r)
    \/ \E r \in Reqs : AuthRate(r)
    \/ \E r \in Reqs : AuthLimitToken(r)
    \/ \E r \in Reqs : AuthRateOp(r)
    \/ \E r \in Reqs : AuthLimitOp(r)
    \/ \E r \in Reqs : Return(r)
    \/ WindowTick

SpecWindows == InitWindows /\ [][WindowsNext]_vars

\* the history stored under key k, empty when there is none
HistoryOf(storage, k) == IF k \in DOMAIN storage THEN storage[k] ELSE <<>>
\* after is what is left of before once entries were removed from its front
FrontRemoved(before, after) ==
    \E n \in 0..Len(before) : after = SubSeq(before, n + 1, Len(before))
\* the second check_and_record of call r returns or raises in this step
OpLimitChecked(r) == req[r].pc = "limit_op" /\ req'[r].pc # "limit_op"
\* the key of the check_and_record that call r is in
KeyInUse(r) ==
    StorageKey(Fingerprint(req[r].token),
               IF req[r].pc = "limit_op" THEN req[r].operation ELSE <<>>)
RejectedBy(r, window) == req'[r].pc = "failed" /\ req'[r].detail = window

\* C32: a check_and_record call rejected by the minute window appends nothing
\* to any history; one rejected by the hour window has appended its timestamp
\* to the minute history and nothing to the hour and day histories; and a
\* request rejected by its operation-specific limit leaves its timestamp in
\* the token-level history
C32_RejectedAppendsNothingLater ==
    [][\A r \in Reqs : (LimitChecked(r) \/ OpLimitChecked(r)) =>
          LET k == KeyInUse(r)
              t == req[r].t
          IN /\ RejectedBy(r, "minute") =>
                   /\ FrontRemoved(HistoryOf(per_minute, k), HistoryOf(per_minute', k))
                   /\ HistoryOf(per_hour', k) = HistoryOf(per_hour, k)
                   /\ HistoryOf(per_day', k) = HistoryOf(per_day, k)
             /\ RejectedBy(r, "hour") =>
                   /\ \E n \in 0..Len(HistoryOf(per_minute, k)) :
                         HistoryOf(per_minute', k) =
                             Append(SubSeq(HistoryOf(per_minute, k), n + 1,
                                           Len(HistoryOf(per_minute, k))), t)
                   /\ FrontRemoved(HistoryOf(per_hour, k), HistoryOf(per_hour', k))
                   /\ HistoryOf(per_day', k) = HistoryOf(per_day, k)
             /\ (OpLimitChecked(r) /\ req'[r].pc = "failed") =>
                   LET token_key == StorageKey(Fingerprint(req[r].token), <<>>)
                       history == HistoryOf(per_minute', token_key)
                   IN /\ history # <<>>
                      /\ history = HistoryOf(per_minute, token_key)
                      /\ req'[r].recorded = 1]_vars

\* a call rejected by the limit of its operation after the token-level limit
\* took its timestamp, when an earlier call was rejected by the hour window
\* after the minute window took its timestamp
C32_Witness ==
    \E r \in Reqs :
        /\ req[r].pc = "failed" /\ req[r].status = 429 /\ req[r].recorded = 1
        /\ req[r].operation \in DOMAIN TokenInfoOf(r).operation_limits
        /\ Len(HistoryOf(per_minute, Fingerprint(SecretA))) = 2
        /\ Len(HistoryOf(per_hour, Fingerprint(SecretA))) = 1

----------------------------------------------------------------------------
(* The keys of the histories *)

\* the key "F" or "F:O" that the check_and_record of call r is called for
ExactKey(r) ==
    IF req[r].pc = "limit_op"
    THEN Fingerprint(req[r].token) \o <<":">> \o req[r].operation
    ELSE Fingerprint(req[r].token)
\* every key that has a history before or after the step
KnownKeys ==
    DOMAIN per_minute \cup DOMAIN per_hour \cup DOMAIN per_day
        \cup DOMAIN per_minute' \cup DOMAIN per_hour' \cup DOMAIN per_day'
\* what the minute window of a call at time t finds under key k
CountedInMinute(k, t) == Len(Prune(HistoryOf(per_minute, k), t - MinuteSeconds))

\* C33: a check_and_record call changes no history stored under a key other
\* than its own, in any window, and whether its minute window rejects it
\* depends on the history under its own key only
C33_KeysIndependent ==
    [][\A r \in Reqs : (LimitChecked(r) \/ OpLimitChecked(r)) =>
          /\ \A k \in KnownKeys \ {ExactKey(r)} :
                /\ HistoryOf(per_minute', k) = HistoryOf(per_minute, k)
                /\ HistoryOf(per_hour', k) = HistoryOf(per_hour, k)
                /\ HistoryOf(per_day', k) = HistoryOf(per_day, k)
          /\ RejectedBy(r, "minute") <=>
                CountedInMinute(ExactKey(r), req[r].t) >=
                    (IF req[r].pc = "limit_op"
                     THEN TokenInfoOf(r).operation_limits[req[r].operation]["requests_per_minute"]
                     ELSE MinuteLimit(r))]_vars

\* a call admitted under the key of fs_ls while the key of its fingerprint
\* holds two timestamps, the key of fs_read is full and another fingerprint
\* has a history
C33_Witness ==
    \E r \in Reqs :
        /\ req[r].pc = "done" /\ req[r].operation = FS_LS /\ req[r].recorded = 2
        /\ Len(HistoryOf(per_minute, Fingerprint(SecretB))) = 2
        /\ Len(HistoryOf(per_minute, Fingerprint(SecretB) \o <<":">> \o FS_READ)) = 1
        /\ Len(HistoryOf(per_minute, Fingerprint(SecretB) \o <<":">> \o FS_LS)) = 1
        /\ HistoryOf(per_minute, Fingerprint(SecretA)) # <<>>

----------------------------------------------------------------------------
(* The lock of the approval queue: check_approval takes it for each read of the
   status and sleeps outside it; approve, deny and list_pending take it for
   their whole body *)

\* the caller threads inside a "with self.lock" block of the queue
QueueLockHeldBy(r) == req[r].pc \in {"wait_locked", "sleep_locked"}
QueueLockFree == \A r \in Reqs : ~QueueLockHeldBy(r)
\* the caller threads in time.sleep(0.5)
Sleeping(r) == req[r].pc \in {"sleep", "sleep_locked"}

\* request_approval: with self.lock, the entry is stored
RequestApprovalUnderLock(r) ==
    /\ req[r].pc = "approval"
    /\ ApprovalRequired(r) => QueueLockFree
    /\ AuthRequestApproval(r)

\* while time.time() - start < timeout: with self.lock
CheckApprovalLock(r) ==
    /\ req[r].pc = "wait"
    /\ IF now - req[r].start < ApprovalTimeout
       THEN /\ QueueLockFree
            /\ req' = [req EXCEPT ![r].pc = "wait_locked"]
       ELSE req' = [req EXCEPT ![r].pc = "timeout"]
    /\ UNCHANGED <<storeVars, lock, limiterVars, pending, now, fresh, phase, adm>>

\* the body of the with block, the thread going to sleep with the lock held
CheckApprovalReadSleepLocked(r) ==
    /\ req[r].pc = "wait_locked"
    /\ LET id == req[r].request_id
       IN IF id \notin DOMAIN pending
          THEN /\ req' = [req EXCEPT ![r] = Raise(r, 403, "Approval denied or timed out", 4)]
               /\ pending' = pending
          ELSE IF pending[id].status = "approved"
          THEN /\ req' = [req EXCEPT ![r] = [req[r] EXCEPT !.pc = "rate", !.passed = @ \cup {4}]]
               /\ pending' = DictDel(pending, id)
          ELSE IF pending[id].status = "denied"
          THEN /\ req' = [req EXCEPT ![r] = Raise(r, 403, "Approval denied or timed out", 4)]
               /\ pending' = DictDel(pending, id)
          ELSE /\ req' = [req EXCEPT ![r].pc = "sleep_locked"]
               /\ pending' = pending
    /\ UNCHANGED <<storeVars, lock, limiterVars, now, fresh, phase, adm>>

\* the body of the with block: the status is read, a decided entry is deleted
\* and the call returns; on a pending entry the block ends, which releases the
\* lock, and the thread goes to sleep
CheckApprovalRead(r) ==
    /\ req[r].pc = "wait_locked"
    /\ LET id == req[r].request_id
       IN IF id \notin DOMAIN pending
          THEN /\ req' = [req EXCEPT ![r] = Raise(r, 403, "Approval denied or timed out", 4)]
               /\ pending' = pending
          ELSE IF pending[id].status = "approved"
          THEN /\ req' = [req EXCEPT ![r] = [req[r] EXCEPT !.pc = "rate", !.passed = @ \cup {4}]]
               /\ pending' = DictDel(pending, id)
          ELSE IF pending[id].status = "denied"
          THEN /\ req' = [req EXCEPT ![r] = Raise(r, 403, "Approval denied or timed out", 4)]
               /\ pending' = DictDel(pending, id)
          ELSE /\ req' = [req EXCEPT ![r].pc = "sleep"]
               /\ pending' = pending
    /\ UNCHANGED <<storeVars, lock, limiterVars, now, fresh, phase, adm>>

\* time.sleep(0.5) returns and the loop tests the time again
CheckApprovalWake(r) ==
    /\ Sleeping(r)
    /\ req' = [req EXCEPT ![r].pc = IF req[r].pc = "sleep" THEN "wait" ELSE "wait_locked"]
    /\ UNCHANGED <<storeVars, lock, limiterVars, pending, now, fresh, phase, adm>>

\* after the loop: with self.lock, the entry is removed, return False
CheckApprovalCleanup(r) == QueueLockFree /\ AuthTimeout(r)

\* approve / deny: with self.lock
DecideUnderLock(a, op, request_id) == QueueLockFree /\ Decide(a, op, request_id)

\* the dictionary list_pending builds for the entry stored under id
ListedEntry(id) ==
    [request_id |-> id, operation |-> pending[id].operation,
     timestamp |-> pending[id].timestamp, age_seconds |-> now - pending[id].timestamp]

\* list_pending returning the entries whose status is pending only
ListPendingUndecided(a) ==
    /\ phase = "up"
    /\ adm[a].pc = "idle"
    /\ QueueLockFree
    /\ adm' = [adm EXCEPT ![a] =
          [IdleAdm EXCEPT !.pc = "done", !.op = "list", !.status = "ok",
                          !.listed = {ListedEntry(id) :
                                      id \in {i \in DOMAIN pending :
                                                 pending[i].status = "pending"}}]]
    /\ UNCHANGED <<storeVars, lock, limiterVars, pending, now, fresh, phase, req>>

\* list_pending: with self.lock, one dictionary for each value of self.pending
ListPending(a) ==
    /\ phase = "up"
    /\ adm[a].pc = "idle"
    /\ QueueLockFree
    /\ adm' = [adm EXCEPT ![a] =
          [IdleAdm EXCEPT !.pc = "done", !.op = "list", !.status = "ok",
                          !.listed = {ListedEntry(id) : id \in DOMAIN pending},
                          !.listed_decided = {id \in DOMAIN pending :
                                                pending[id].status # "pending"}]]
    /\ UNCHANGED <<storeVars, lock, limiterVars, pending, now, fresh, phase, req>>

\* a waiter whose time is not up yet
WaitingInTime(r) ==
    /\ req[r].pc \in {"wait", "wait_locked", "sleep", "sleep_locked"}
    /\ now - req[r].start < ApprovalTimeout

\* time passes; it keeps passing while a waiter has time left
WaitTick ==
    /\ now < MaxTicks * TickSeconds \/ \E r \in Reqs : WaitingInTime(r)
    /\ now' = now + TickSeconds
    /\ UNCHANGED <<storeVars, lock, limiterVars, pending, fresh, phase, req, adm>>

\* callers of fs_write with token A, which needs approval, an administrator
\* who approves or denies and one who lists
WaitNext ==
    \/ \E r \in Reqs :
          CallAuthorize(r, Some(BEARER \o SecretA), FS_WRITE, None, None, TRUE)
    \/ \E r \in Reqs : AuthParse(r)
    \/ \E r \in Reqs : ValidateLookup(r)
    \/ \E r \in Reqs : ValidateCheck(r)
    \/ \E r \in Reqs : ValidateTouch(r)
    \/ \E r \in Reqs : AuthCheckPermission(r)
    \/ \E r \in Reqs : RequestApprovalUnderLock(r)
    \/ \E r \in Reqs : CheckApprovalLock(r)
    \/ \E r \in Reqs : CheckApprovalRead(r)
    \/ \E r \in Reqs : CheckApprovalWake(r)
    \/ \E r \in Reqs : CheckApprovalCleanup(r)
    \/ \E r \in Reqs : AuthRate(r)
    \/ \E a \in {1}, op \in {"approve", "deny"}, id \in IssuedIds :
          DecideUnderLock(a, op, id)
    \/ \E a \in {2} : ListPending(a)
    \/ WaitTick

SpecWait == Init /\ [][WaitNext]_vars

\* time advances and every waiter is scheduled fairly, the lock being granted
\* to a thread that keeps asking for it
SpecWaitFair ==
    /\ SpecWait
    /\ WF_vars(WaitTick)
    /\ \A r \in Reqs :
          /\ SF_vars(CheckApprovalLock(r))
          /\ WF_vars(CheckApprovalRead(r))
          /\ WF_vars(CheckApprovalWake(r))
          /\ SF_vars(CheckApprovalCleanup(r))

\* call r is inside check_approval
InCheckApproval(r) ==
    req[r].pc \in {"wait", "wait_locked", "sleep", "sleep_locked", "timeout"}

\* C34: every wait_for_decision call returns, decided or not, and a waiter
\* that sleeps does not hold the lock of the queue
C34_WaitTerminates ==
    /\ \A r \in Reqs : InCheckApproval(r) ~> WaitReturned(r)
    /\ [](\A r \in Reqs : Sleeping(r) => ~QueueLockHeldBy(r))

\* a wait that returned False on its timeout, no decision having been made,
\* while an administrator listed the queue during the wait
C34_Witness ==
    \E r \in Reqs, a \in Admins :
        /\ req[r].pc = "failed" /\ req[r].failed_at = 4
        /\ now - req[r].start >= ApprovalTimeout
        /\ \A b \in Admins : adm[b].op \notin {"approve", "deny"}
        /\ adm[a].op = "list"
        /\ \E e \in adm[a].listed : e.request_id = req[r].request_id

----------------------------------------------------------------------------
(* Operation names check_permission does not know *)

\* C35: for an operation outside fs_ls, fs_read, fs_write, fs_mkdir, fs_rm and
\* exec, check_permission never refuses for a missing scope: a token without
\* the admin scope is refused exactly when the path rules refuse the supplied
\* path or the command rules refuse the supplied command, and with neither
\* supplied the call is allowed
C35_UnknownOperationNoScope ==
    \A r \in Reqs :
        (PermDecided(r) /\ req[r].operation \notin KnownOps) =>
            /\ PermForbidden(r) => req[r].detail \in {"Path not allowed", "Command not allowed"}
            /\ "admin" \notin TokenInfoOf(r).scopes =>
                  (PermForbidden(r) <=>
                      ~CheckRules(TokenInfoOf(r), req[r].path, req[r].command).ok)
            /\ (~req[r].path.present /\ ~Truthy(req[r].command)) => 3 \in req[r].passed

\* a token with an empty scope set was allowed the operation legacy on a path
C35_Witness ==
    \E r \in Reqs :
        /\ PermDecided(r) /\ 3 \in req[r].passed
        /\ req[r].operation = LEGACY
        /\ TokenInfoOf(r).scopes = {}
        /\ req[r].path.present

----------------------------------------------------------------------------
(* A token with the admin scope in authorize: its own approval set holds
   fs_write, the global one fs_rm, and it is limited to
   ConfigRequestsPerMinute requests per minute *)

TokenIdAdm == <<"t", "m">>
ConfigTokenAdm ==
    [ConfigToken(TokenIdAdm, SecretA, {"admin"}, None, None, None, None)
        EXCEPT !.rate_limits = Some([w \in {"requests_per_minute"} |-> ConfigRequestsPerMinute]),
               !.require_approval = Some({FS_WRITE})]
BypassConfig == ConfigFile(<<ConfigTokenAdm>>, <<>>, {FS_RM})

InitBypass ==
    /\ StoreLoaded(BypassConfig)
    /\ per_minute = EmptyDict /\ per_hour = EmptyDict /\ per_day = EmptyDict
    /\ admitted = EmptyDict
    /\ pending = EmptyDict
    /\ now = 0
    /\ fresh = 0
    /\ req = [r \in Reqs |-> IdleReq]
    /\ adm = [a \in Admins |-> IdleAdm]

BypassNext ==
    \/ \E r \in {1}, o \in {FS_READ, FS_WRITE, FS_RM} :
          CallAuthorize(r, Some(BEARER \o SecretA), o, Some(PathTF), None, FALSE)
    \/ \E r \in Reqs : AuthParse(r)
    \/ \E r \in Reqs : ValidateLookup(r)
    \/ \E r \in Reqs : ValidateCheck(r)
    \/ \E r \in Reqs : ValidateTouch(r)
    \/ \E r \in Reqs : AuthCheckPermission(r)
    \/ \E r \in Reqs : AuthRequestApproval(r)
    \/ \E r \in Reqs : AuthPoll(r)
    \/ \E r \in Reqs : AuthTimeout(r)
    \/ \E r \in Reqs : AuthRate(r)
    \/ \E r \in Reqs : AuthLimitToken(r)
    \/ \E r \in Reqs : Return(r)
    \/ \E a \in Admins, op \in {"approve", "deny"}, id \in IssuedIds : Decide(a, op, id)
    \/ Tick

SpecBypass == InitBypass /\ [][BypassNext]_vars

\* the operation of call r is in its token's approval set or in the global one
InApprovalSet(r) ==
    req[r].operation \in (TokenInfoOf(r).require_approval \cup require_approval_operations)
\* call r holds the admin scope and check_permission has let it through
AdminPastPermission(r) ==
    /\ req[r].kind = "authorize" /\ 3 \in req[r].passed
    /\ "admin" \in TokenInfoOf(r).scopes

\* C36: a call with the admin scope whose operation is in an approval set
\* creates a pending entry and reaches rate limiting only once approved, and
\* the limiter counts and rejects its calls by the history of its key
C36_AdminBypassesPermissionOnly ==
    /\ [](\A r \in Reqs : (AdminPastPermission(r) /\ InApprovalSet(r)) =>
            /\ req[r].pc # "approval" => req[r].created
            /\ (req[r].pc \in {"rate", "limit_token", "done"} \/ 5 \in req[r].began) =>
                  4 \in req[r].passed)
    /\ [][\A r \in Reqs : (LimitChecked(r) /\ AdminPastPermission(r)) =>
            /\ RejectedBy(r, "minute") <=>
                  CountedInMinute(Fingerprint(req[r].token), req[r].t) >= MinuteLimit(r)
            /\ ~RejectedBy(r, "minute") =>
                  /\ req'[r].pc = "done" /\ req'[r].recorded = 1
                  /\ HistoryOf(per_minute', Fingerprint(req[r].token)) # <<>>]_vars

\* a call with the admin scope on fs_write that was approved and then rejected
\* by the rate limiter
C36_Witness ==
    \E r \in Reqs :
        /\ AdminPastPermission(r) /\ req[r].operation = FS_WRITE
        /\ req[r].created /\ 4 \in req[r].passed
        /\ req[r].pc = "failed" /\ req[r].status = 429

----------------------------------------------------------------------------
(* list_pending *)

\* administrator a returns from list_pending in this step
Lists(a) == adm[a].pc = "idle" /\ adm'[a].pc = "done" /\ adm'[a].op = "list"

\* C37: list_pending changes no entry of the queue and returns one item for
\* every entry in it, whatever the status of the entry
C37_ListPendingReadOnly ==
    [][\A a \in Admins : Lists(a) =>
          /\ pending' = pending
          /\ {e.request_id : e \in adm'[a].listed} = DOMAIN pending
          /\ \A e \in adm'[a].listed :
                /\ e.operation = pending[e.request_id].operation
                /\ e.timestamp = pending[e.request_id].timestamp]_vars

\* list_pending returned an entry that had been approved and that its waiter
\* had not collected
C37_Witness ==
    \E a \in Admins : \E id \in adm[a].listed_decided :
        /\ adm[a].op = "list"
        /\ \E e \in adm[a].listed : e.request_id = id
        /\ id \in DOMAIN pending /\ pending[id].status = "approved"

----------------------------------------------------------------------------
(* A decision made between the last poll and the cleanup *)

\* the loop of check_approval of call r has ended on the time test and the
\* cleanup has not run yet
AfterLastPoll(r) == req[r].pc = "timeout"

\* C38: an approve issued after the waiter's last status check and before its
\* cleanup returns true and records approved, and the cleanup then deletes the
\* entry whatever its status and the call fails with 403
C38_LateDecisionLost ==
    [][/\ \A a \in Admins : \A r \in Reqs :
             (Decides(a) /\ adm'[a].op = "approve" /\ AfterLastPoll(r)
                 /\ adm'[a].token_id = req[r].request_id
                 /\ req[r].request_id \in DOMAIN pending) =>
                 /\ adm'[a].status = "true"
                 /\ pending'[req[r].request_id].status = "approved"
       /\ \A r \in Reqs :
             (AfterLastPoll(r) /\ req'[r].pc # "timeout") =>
                 /\ req'[r].pc = "failed" /\ req'[r].status = 403 /\ req'[r].failed_at = 4
                 /\ req[r].request_id \notin DOMAIN pending']_vars

\* a call that failed at the approval wait although approve returned true for
\* its request id and no deny was issued for it
C38_Witness ==
    \E r \in Reqs, a \in Admins :
        /\ req[r].pc = "failed" /\ req[r].failed_at = 4 /\ req[r].status = 403
        /\ adm[a].op = "approve" /\ adm[a].status = "true"
        /\ adm[a].token_id = req[r].request_id
        /\ \A b \in Admins : ~(adm[b].op = "deny" /\ adm[b].token_id = req[r].request_id)
        /\ req[r].request_id \notin DOMAIN pending

----------------------------------------------------------------------------
(* The three locks together: two callers of authorize, an administrator of the
   Token Store and an administrator of the Approval Queue *)

\* time passes while a waiter has time left
TimeoutTick ==
    /\ \E r \in Reqs : WaitingInTime(r)
    /\ now' = now + ApprovalTimeout
    /\ UNCHANGED <<storeVars, lock, limiterVars, pending, fresh, phase, req, adm>>

\* the calls that begin, and the calls of the queue's administrator
LocksCalls ==
    \/ CallAuthorize(1, Some(BEARER \o SecretA), FS_WRITE, None, None, FALSE)
    \/ CallAuthorize(2, Some(BEARER \o SecretA), FS_READ, None, None, FALSE)
    \/ \E op \in {"rotate", "disable"} : CallOnToken(1, op, TokenIdA)
    \/ CallAdmin(1, "create")
    \/ \E op \in {"approve", "deny"}, id \in IssuedIds : DecideUnderLock(2, op, id)
    \/ ListPending(2)

\* the steps of the calls under way
LocksSteps ==
    \/ \E r \in Reqs : AuthParse(r)
    \/ \E r \in Reqs : ValidateLookup(r)
    \/ \E r \in Reqs : ValidateCheck(r)
    \/ \E r \in Reqs : ValidateTouch(r)
    \/ \E r \in Reqs : AuthCheckPermission(r)
    \/ \E r \in Reqs : RequestApprovalUnderLock(r)
    \/ \E r \in Reqs : CheckApprovalLock(r)
    \/ \E r \in Reqs : CheckApprovalRead(r)
    \/ \E r \in Reqs : CheckApprovalWake(r)
    \/ \E r \in Reqs : CheckApprovalCleanup(r)
    \/ \E r \in Reqs : AuthRate(r)
    \/ \E r \in Reqs : AuthLimitToken(r)
    \/ \E r \in Reqs : AuthRateOp(r)
    \/ \E r \in Reqs : AuthLimitOp(r)
    \/ \E a \in Admins : RotateCheck(a)
    \/ \E a \in Admins : RotateAssign(a)
    \/ \E a \in Admins : RotateDel(a)
    \/ \E a \in Admins : RotateSet(a)
    \/ \E a \in Admins : RotateSave(a)
    \/ \E a \in Admins : Disable(a)
    \/ \E a \in Admins : Create(a, {"read"}, 0)

LocksNext == LocksCalls \/ LocksSteps \/ TimeoutTick

SpecLocks == Init /\ [][LocksNext]_vars

\* time advances while a waiter has time left, and while a step of a call
\* under way is possible some such step is taken
SpecLocksFair == SpecLocks /\ WF_vars(TimeoutTick) /\ WF_vars(LocksSteps)

\* the threads that hold the lock of the Token Store and of the Approval Queue
StoreLockHolders == {lock} \ {NoOwner}
QueueLockHolders == {ReqThread(r) : r \in {q \in Reqs : QueueLockHeldBy(q)}}
\* no call is under way and no lock is held
Quiet ==
    /\ \A r \in Reqs : req[r].pc = "idle" \/ Finished(r)
    /\ \A a \in Admins : adm[a].pc \in {"idle", "done", "failed"}
    /\ StoreLockHolders = {} /\ QueueLockHolders = {}

\* C39: no thread holds the lock of one component while it holds that of
\* another and each lock has at most one holder; the holder of the store's
\* lock can enter save_tokens; and every call that was begun returns, all
\* locks released
C39_NoDeadlock ==
    /\ [](/\ StoreLockHolders \cap QueueLockHolders = {}
          /\ Cardinality(QueueLockHolders) <= 1
          /\ \A a \in Admins : adm[a].pc = "rotate_save" =>
                lock = AdmThread(a) /\ ENABLED RotateSave(a))
    /\ []<>Quiet

\* a rotation returned after it saved under the lock it already held, while a
\* caller was inside the lock of the queue
C39_Witness ==
    \E a \in Admins, r \in Reqs :
        /\ adm[a].op = "rotate" /\ adm[a].pc = "done" /\ lock = NoOwner
        /\ QueueLockHeldBy(r)

----------------------------------------------------------------------------
(* legacy_require_auth: before and after the store holds a token *)

\* an endpoint calls legacy_require_auth(authorization)
CallLegacy(r, authorization) ==
    /\ req[r].pc = "idle"
    /\ req' = [req EXCEPT ![r] = [IdleReq EXCEPT !.pc = "legacy", !.kind = "authorize",
                                    !.authorization = authorization, !.operation = LEGACY,
                                    !.after = RotationsDone,
                                    !.after_disable = DisablesDone]]
    /\ UNCHANGED <<storeVars, lock, limiterVars, pending, now, fresh, phase, adm>>

\* legacy_require_auth sending every request through require_auth_and_permission
LegacyRequireAuthClosed(r) ==
    /\ req[r].pc = "legacy"
    /\ req' = [req EXCEPT ![r] =
          IF phase = "down"
          THEN [Raise(r, 500, "none", 0) EXCEPT !.wrapper = "refused"]
          ELSE [req[r] EXCEPT !.pc = "parse", !.wrapper = "legacy"]]
    /\ UNCHANGED <<storeVars, lock, limiterVars, pending, now, fresh, phase, adm>>

\* if not _token_manager or not _token_manager.tokens: return None; otherwise
\* require_auth_and_permission(authorization, operation="legacy")
LegacyRequireAuth(r) ==
    /\ req[r].pc = "legacy"
    /\ req' = [req EXCEPT ![r] =
          IF phase = "down" \/ tokens = <<>>
          THEN [req[r] EXCEPT !.pc = "done", !.status = 200, !.wrapper = "open"]
          ELSE [req[r] EXCEPT !.pc = "parse", !.wrapper = "legacy"]]
    /\ UNCHANGED <<storeVars, lock, limiterVars, pending, now, fresh, phase, adm>>

\* requests without a header, with the operator's secret and with a wrong
\* one; the process is set up with or without AUTH_TOKEN, and an administrator
\* creates a token
LegacyNext ==
    \/ \E t \in {None, Some(<<"a", ",", " ", "b">>)} : SetupSecurity(t, None)
    \/ \E r \in Reqs, authorization \in {None, Some(BEARER \o SecretA),
                                          Some(BEARER \o <<"z">>)} :
          CallLegacy(r, authorization)
    \/ \E r \in Reqs : LegacyRequireAuth(r)
    \/ \E r \in Reqs : AuthParse(r)
    \/ \E r \in Reqs : ValidateLookup(r)
    \/ \E r \in Reqs : ValidateCheck(r)
    \/ \E r \in Reqs : ValidateTouch(r)
    \/ \E r \in Reqs : AuthCheckPermission(r)
    \/ \E r \in Reqs : AuthRequestApproval(r)
    \/ \E r \in Reqs : AuthRate(r)
    \/ \E r \in Reqs : AuthLimitToken(r)
    \/ \E a \in {1} : CallAdmin(a, "create")
    \/ \E a \in Admins : Create(a, {"read"}, 0)

SpecLegacy == InitDown /\ [][LegacyNext]_vars

\* legacy_require_auth of call r decides in this step
LegacyDecides(r) == req[r].pc = "legacy" /\ req'[r].pc # "legacy"
\* call r was admitted by legacy_require_auth without the pipeline
AdmittedOpen(r) == req[r].pc = "done" /\ req[r].wrapper = "open"

\* C40: while the store holds no token legacy_require_auth returns without an
\* identity and without reading the credential; once the store holds a token
\* the request goes through require_auth_and_permission with the operation
\* legacy, and it is admitted only after the header, the token, the
\* permission and the rate limit were checked
C40_LegacyFailsOpen ==
    /\ [][\A r \in Reqs : LegacyDecides(r) =>
            IF phase = "down" \/ tokens = <<>>
            THEN /\ req'[r].pc = "done" /\ req'[r].wrapper = "open"
                 /\ req'[r].token_id = NoStr /\ req'[r].began = {}
            ELSE /\ req'[r].pc = "parse" /\ req'[r].operation = LEGACY
                 /\ req'[r].wrapper = "legacy"]_vars
    /\ [](\A r \in Reqs : (req[r].operation = LEGACY /\ req[r].pc = "done") =>
            \/ AdmittedOpen(r)
            \/ /\ {1, 2, 3, 5} \subseteq req[r].passed
               /\ HasToken(tokens, req[r].token_id)
               /\ req[r].recorded >= 1)

\* a request with a wrong secret admitted while the store was empty, and the
\* same header refused as an invalid token once a token existed
C40_Witness ==
    \E r, q \in Reqs :
        /\ AdmittedOpen(r) /\ req[r].authorization = Some(BEARER \o <<"z">>)
        /\ req[q].wrapper = "legacy" /\ req[q].authorization = req[r].authorization
        /\ req[q].pc = "failed" /\ req[q].status = 403 /\ req[q].detail = "Invalid token"
        /\ tokens # <<>>

====
